---- MODULE Spec2Model ----
(***************************************************************************)
(* Model of backend/src/python/analyze_audio.py: the persistent worker     *)
(* loop (worker_loop), the one-shot / loop evidence classifier             *)
(* (detect_sample_type) and the parts of the analysis pipeline they use.   *)
(*                                                                         *)
(* Text on stdin / stdout is modelled as sequences of lexical tokens, and  *)
(* json.loads / json.dumps as a parser and a printer over those tokens.    *)
(* Python values are tagged records.                                       *)
(***************************************************************************)
EXTENDS Integers, Sequences, FiniteSets, TLC

VARIABLES
    pc,          \* worker_loop position: "start", "read", "dispatch", "done"
    cur,         \* the stripped line being handled (token sequence)
    inLog,       \* every line read from stdin so far, in order
    out,         \* every line written to stdout so far, in order
    calls,       \* number of analyze_audio invocations so far
    cache,       \* module globals _yamnet_model, _yamnet_class_names, _panns_model, _panns_labels
    config,      \* module constants read from the environment at import time
    exitCause,   \* why the for-loop ended: "none", "shutdown", "eof"
    cls,         \* one run of detect_sample_type (inputs, position, scores, verdict)
    run,         \* one run of analyze_audio, stage by stage (position, features so far)
    det,         \* one call of safe_onset_detect (arguments, peaks, returned frames)
    tagging,     \* one call of generate_tags (the record read, the tags returned)
    loads        \* the calls of the model loaders so far in this process

vars == <<pc, cur, inLog, out, calls, cache, config, exitCause, cls, run, det, tagging, loads>>

\* the calls that are not under way
fnVars == <<det, tagging, loads>>

workerVars == <<pc, cur, inLog, out, calls, cache, config, exitCause>>

--------------------------------------------------------------------------
(* Bounds *)

MaxLines == 2

--------------------------------------------------------------------------
(* Python values *)

PyNone == [t |-> "null"]

PyStr(s) == [t |-> "str", s |-> s]

PyBool(b) == [t |-> "bool", b |-> b]

\* a float; n names the value: "nan", "inf", "-inf" or a finite literal
PyNum(n) == [t |-> "num", n |-> n]

PyList(items) == [t |-> "list", items |-> items]

\* a dict keeps insertion order: a sequence of <<key, value>> pairs
PyDict(pairs) == [t |-> "dict", pairs |-> pairs]

\* raised exception carrying str(e)
Raised(kind, msg) == [raised |-> TRUE, kind |-> kind, msg |-> msg]

Returned(v) == [raised |-> FALSE, val |-> v]

--------------------------------------------------------------------------
(* Lexical tokens of a line of text *)

P(c) == [k |-> "punct", v |-> c]

S(s) == [k |-> "str", v |-> s]

N(n) == [k |-> "num", v |-> n]

L(w) == [k |-> "lit", v |-> w]

\* text that is no JSON token at all
Junk == [k |-> "junk", v |-> "?"]

--------------------------------------------------------------------------
(* json.dumps: Python value -> text.  allow_nan is left at its default, so *)
(* nan / inf / -inf are printed as the bare words NaN, Infinity, -Infinity *)

RECURSIVE Tokens(_), ItemTokens(_, _), PairTokens(_, _)

FloatTokens(n) ==
    IF n = "nan" THEN <<L("NaN")>>
    ELSE IF n = "inf" THEN <<L("Infinity")>>
    ELSE IF n = "-inf" THEN <<L("-Infinity")>>
    ELSE <<N(n)>>

ItemTokens(items, i) ==
    IF i > Len(items) THEN <<>>
    ELSE (IF i > 1 THEN <<P(",")>> ELSE <<>>) \o Tokens(items[i]) \o ItemTokens(items, i + 1)

PairTokens(pairs, i) ==
    IF i > Len(pairs) THEN <<>>
    ELSE (IF i > 1 THEN <<P(",")>> ELSE <<>>)
         \o <<S(pairs[i][1]), P(":")>> \o Tokens(pairs[i][2]) \o PairTokens(pairs, i + 1)

Tokens(v) ==
    CASE v.t = "null" -> <<L("null")>>
      [] v.t = "bool" -> <<L(IF v.b THEN "true" ELSE "false")>>
      [] v.t = "str"  -> <<S(v.s)>>
      [] v.t = "num"  -> FloatTokens(v.n)
      [] v.t = "list" -> <<P("[")>> \o ItemTokens(v.items, 1) \o <<P("]")>>
      [] v.t = "dict" -> <<P("{")>> \o PairTokens(v.pairs, 1) \o <<P("}")>>

JsonDumps(v) == Tokens(v)

--------------------------------------------------------------------------
(* A JSON reader over tokens.  lenient = TRUE is Python's json.loads, which *)
(* also reads NaN / Infinity / -Infinity; lenient = FALSE is the JSON       *)
(* grammar itself (RFC 8259), which has no such words.                      *)

ParseFail == [ok |-> FALSE, next |-> 0, val |-> PyNone]

ParseOk(next, val) == [ok |-> TRUE, next |-> next, val |-> val]

RECURSIVE ParseValue(_, _, _), ParseItems(_, _, _, _), ParsePairs(_, _, _, _)

ParseValue(toks, i, lenient) ==
    IF i > Len(toks) THEN ParseFail
    ELSE LET tk == toks[i] IN
         CASE tk.k = "str" -> ParseOk(i + 1, PyStr(tk.v))
           [] tk.k = "num" -> ParseOk(i + 1, PyNum(tk.v))
           [] tk.k = "lit" ->
                CASE tk.v = "null"  -> ParseOk(i + 1, PyNone)
                  [] tk.v = "true"  -> ParseOk(i + 1, PyBool(TRUE))
                  [] tk.v = "false" -> ParseOk(i + 1, PyBool(FALSE))
                  [] tk.v = "NaN" -> IF lenient THEN ParseOk(i + 1, PyNum("nan")) ELSE ParseFail
                  [] tk.v = "Infinity" -> IF lenient THEN ParseOk(i + 1, PyNum("inf")) ELSE ParseFail
                  [] tk.v = "-Infinity" -> IF lenient THEN ParseOk(i + 1, PyNum("-inf")) ELSE ParseFail
                  [] OTHER -> ParseFail
           [] tk.k = "punct" ->
                CASE tk.v = "[" ->
                       IF i + 1 <= Len(toks) /\ toks[i + 1] = P("]")
                       THEN ParseOk(i + 2, PyList(<<>>))
                       ELSE ParseItems(toks, i + 1, lenient, <<>>)
                  [] tk.v = "{" ->
                       IF i + 1 <= Len(toks) /\ toks[i + 1] = P("}")
                       THEN ParseOk(i + 2, PyDict(<<>>))
                       ELSE ParsePairs(toks, i + 1, lenient, <<>>)
                  [] OTHER -> ParseFail
           [] OTHER -> ParseFail

ParseItems(toks, i, lenient, acc) ==
    LET r == ParseValue(toks, i, lenient) IN
    IF ~r.ok \/ r.next > Len(toks) THEN ParseFail
    ELSE IF toks[r.next] = P("]") THEN ParseOk(r.next + 1, PyList(Append(acc, r.val)))
    ELSE IF toks[r.next] = P(",") THEN ParseItems(toks, r.next + 1, lenient, Append(acc, r.val))
    ELSE ParseFail

ParsePairs(toks, i, lenient, acc) ==
    IF i + 1 > Len(toks) \/ toks[i].k # "str" \/ toks[i + 1] # P(":") THEN ParseFail
    ELSE LET r == ParseValue(toks, i + 2, lenient) IN
         IF ~r.ok \/ r.next > Len(toks) THEN ParseFail
         ELSE IF toks[r.next] = P("}")
              THEN ParseOk(r.next + 1, PyDict(Append(acc, <<toks[i].v, r.val>>)))
         ELSE IF toks[r.next] = P(",")
              THEN ParsePairs(toks, r.next + 1, lenient, Append(acc, <<toks[i].v, r.val>>))
         ELSE ParseFail

\* the whole text must be one value
ParseText(toks, lenient) ==
    LET r == ParseValue(toks, 1, lenient) IN
    IF r.ok /\ r.next = Len(toks) + 1 THEN r ELSE ParseFail

\* json.loads(line): the value, or json.JSONDecodeError
JsonLoads(toks) ==
    LET r == ParseText(toks, TRUE) IN
    IF r.ok THEN Returned(r.val) ELSE Raised("JSONDecodeError", "Expecting value")

\* the text reads as valid JSON
ValidJSON(toks) == ParseText(toks, FALSE).ok

--------------------------------------------------------------------------
(* dict access *)

HasKey(d, key) == \E i \in 1..Len(d.pairs) : d.pairs[i][1] = key

\* d[key] for a key the dict has (the last pair wins, as in json.loads)
Lookup(d, key) ==
    LET i == CHOOSE j \in 1..Len(d.pairs) :
                 /\ d.pairs[j][1] = key
                 /\ \A m \in (j + 1)..Len(d.pairs) : d.pairs[m][1] # key
    IN d.pairs[i][2]

\* d.get(key, default)
Get(d, key, default) == IF HasKey(d, key) THEN Lookup(d, key) ELSE default

Keys(d) == {d.pairs[i][1] : i \in 1..Len(d.pairs)}

\* Python truthiness, as used by `not audio_path`
Truthy(v) ==
    CASE v.t = "null" -> FALSE
      [] v.t = "bool" -> v.b
      [] v.t = "str"  -> v.s # ""
      [] v.t = "num"  -> v.n \notin {"0", "0.0"}
      [] v.t = "list" -> Len(v.items) > 0
      [] v.t = "dict" -> Len(v.pairs) > 0

--------------------------------------------------------------------------
(* The environment: files named by the requests, and what is in them *)

\* kind: what os.path.exists / os.path.isfile see; audio: what librosa.load
\* finds.  "silent" is digital silence (every sample 0.0).
FileSystem(path) ==
    CASE path = "nofile.wav"  -> [exists |-> FALSE, isfile |-> FALSE, audio |-> "none"]
      [] path = "somedir"     -> [exists |-> TRUE,  isfile |-> FALSE, audio |-> "none"]
      [] path = "corrupt.wav" -> [exists |-> TRUE,  isfile |-> TRUE,  audio |-> "undecodable"]
      [] path = "empty.wav"   -> [exists |-> TRUE,  isfile |-> TRUE,  audio |-> "nosamples"]
      [] path = "silent.wav"  -> [exists |-> TRUE,  isfile |-> TRUE,  audio |-> "silent"]
      [] path = "kick.wav"    -> [exists |-> TRUE,  isfile |-> TRUE,  audio |-> "normal"]
      [] OTHER                -> [exists |-> FALSE, isfile |-> FALSE, audio |-> "none"]

\* os.path.exists(p) / os.path.isfile(p): a str is looked up, a list raises TypeError
OsPathExists(p) ==
    IF p.t = "str" THEN Returned(FileSystem(p.s).exists)
    ELSE Raised("TypeError", "stat: path should be string, bytes, os.PathLike or integer, not list")

OsPathIsFile(p) ==
    IF p.t = "str" THEN Returned(FileSystem(p.s).isfile)
    ELSE Raised("TypeError", "stat: path should be string, bytes, os.PathLike or integer, not list")

--------------------------------------------------------------------------
(* Runtime modes read from the environment at import time *)

MakeConfig(safe, disEssentia, disTf, disFp, useYamnet) ==
    [SAFE_MODE           |-> safe,
     DISABLE_ESSENTIA    |-> safe \/ disEssentia,
     DISABLE_TENSORFLOW  |-> safe \/ disTf,
     DISABLE_FINGERPRINT |-> safe \/ disFp,
     USE_YAMNET          |-> useYamnet]

\* the module-level names tf / hub are None when TensorFlow is disabled
TfAvailable(cfg) == ~cfg.DISABLE_TENSORFLOW

--------------------------------------------------------------------------
(* Model cache *)

EmptyCache ==
    [yamnet_model |-> "None", yamnet_class_names |-> "None",
     panns_model  |-> "None", panns_labels       |-> "None"]

\* what one call of a loader meets when it really has to load
LoadOutcomes == {"model_fail", "labels_fail", "ok"}

\* load_yamnet_model() without the test of line 1381: every call loads afresh
load_yamnet_model_uncached(c, cfg, outcome) ==
    IF ~TfAvailable(cfg)
    THEN [cache |-> c, model |-> "None", labels |-> "None"]
    ELSE CASE outcome = "model_fail" ->
                [cache |-> [c EXCEPT !.yamnet_model = "None", !.yamnet_class_names = "None"],
                 model |-> "None", labels |-> "None"]
           [] outcome = "labels_fail" ->
                [cache |-> [c EXCEPT !.yamnet_model = "model",
                                     !.yamnet_class_names = "partial"],
                 model |-> "None", labels |-> "None"]
           [] outcome = "ok" ->
                [cache |-> [c EXCEPT !.yamnet_model = "model",
                                     !.yamnet_class_names = "complete"],
                 model |-> "model", labels |-> "complete"]

\* load_yamnet_model(): <<cache afterwards, model returned, class names returned>>
load_yamnet_model(c, cfg, outcome) ==
    IF c.yamnet_model # "None"
    THEN [cache |-> c, model |-> c.yamnet_model, labels |-> c.yamnet_class_names]
    ELSE IF ~TfAvailable(cfg)
    THEN [cache |-> c, model |-> "None", labels |-> "None"]
    ELSE CASE outcome = "model_fail" ->
                \* hub.load raised: nothing was assigned
                [cache |-> c, model |-> "None", labels |-> "None"]
           [] outcome = "labels_fail" ->
                \* the model global is assigned, reading the class map raised
                [cache |-> [c EXCEPT !.yamnet_model = "model",
                                     !.yamnet_class_names = "partial"],
                 model |-> "None", labels |-> "None"]
           [] outcome = "ok" ->
                [cache |-> [c EXCEPT !.yamnet_model = "model",
                                     !.yamnet_class_names = "complete"],
                 model |-> "model", labels |-> "complete"]

\* load_panns_model(): <<cache afterwards, model returned, labels returned>>
load_panns_model(c, outcome) ==
    IF c.panns_model # "None"
    THEN [cache |-> c, model |-> c.panns_model, labels |-> c.panns_labels]
    ELSE CASE outcome = "model_fail" ->
                \* the import or the AudioTagging constructor raised: nothing was assigned
                [cache |-> c, model |-> "None", labels |-> "None"]
           [] outcome = "labels_fail" ->
                [cache |-> [c EXCEPT !.panns_model = "model", !.panns_labels = "partial"],
                 model |-> "None", labels |-> "None"]
           [] outcome = "ok" ->
                [cache |-> [c EXCEPT !.panns_model = "model", !.panns_labels = "complete"],
                 model |-> "model", labels |-> "complete"]

\* a non-empty list of {class, confidence} predictions
SomeClasses ==
    PyList(<<PyDict(<< <<"class", PyStr("Drum")>>, <<"confidence", PyNum("0.9")>> >>)>>)

\* extract_instrument_ml: the (model, names) pair decides between the null
\* record and an inference over the label list
extract_instrument_ml(c, cfg, outcome) ==
    LET ld == load_yamnet_model(c, cfg, outcome) IN
    [cache |-> ld.cache,
     classes |-> IF ld.model = "None" \/ ld.labels # "complete" THEN PyNone ELSE SomeClasses]

extract_instrument_ml_panns(c, outcome) ==
    LET ld == load_panns_model(c, outcome) IN
    [cache |-> ld.cache,
     classes |-> IF ld.model = "None" \/ ld.labels # "complete" THEN PyNone ELSE SomeClasses]

\* Phase 4 of analyze_audio: PANNs first unless USE_YAMNET, YAMNet as fallback
MlInstrumentStage(c, cfg, o1, o2) ==
    IF cfg.USE_YAMNET
    THEN extract_instrument_ml(c, cfg, o1)
    ELSE LET p == extract_instrument_ml_panns(c, o1) IN
         IF p.classes = PyNone THEN extract_instrument_ml(p.cache, cfg, o2) ELSE p

--------------------------------------------------------------------------
(* analyze_audio as the worker sees it: a FeatureRecord or one exception *)

\* extract_loudness_ebu(y_original, sr): measured on the unmodified waveform
extract_loudness_ebu(audio) ==
    IF audio = "silent"
    THEN << <<"loudness_integrated", PyNum("-inf")>>,
            <<"loudness_range", PyNum("0.0")>>,
            <<"loudness_momentary_max", PyNum("-inf")>>,
            <<"true_peak", PyNum("-inf")>> >>
    ELSE << <<"loudness_integrated", PyNum("-14.2")>>,
            <<"loudness_range", PyNum("0.0")>>,
            <<"loudness_momentary_max", PyNum("-14.2")>>,
            <<"true_peak", PyNum("-0.3")>> >>

\* str(e) of the exception a mandatory stage raises: librosa.load on a file it
\* cannot decode, preprocess_audio (np.max of an empty array) on a file without samples
StageError(audio) ==
    IF audio = "undecodable" THEN "Error opening file: Format not recognised."
    ELSE "zero-size array to reduction operation maximum which has no identity"

\* the wrapped message of the outer except of analyze_audio
AnalysisFailed(msg) == Raised("Exception", "Audio analysis failed: " \o msg)

analyze_audio(path, level, c, cfg, o1, o2) ==
    LET audio == FileSystem(path).audio
        ml    == MlInstrumentStage(c, cfg, o1, o2)
        core  == << <<"is_one_shot", PyBool(TRUE)>>,
                    <<"is_loop", PyBool(FALSE)>>,
                    <<"analysis_level", level>>,
                    <<"instrument_predictions", PyList(<<>>)>> >>
        adv   == << <<"instrument_classes", ml.classes>> >> \o extract_loudness_ebu(audio)
        tail  == << <<"suggested_tags", PyList(<<>>)>>,
                    <<"analysis_duration_ms", PyNum("12")>> >>
    IN
    CASE audio \in {"undecodable", "nosamples"} ->
            [res |-> AnalysisFailed(StageError(audio)), cache |-> c]
      [] OTHER ->
            IF level = PyStr("advanced")
            THEN [res |-> Returned(PyDict(core \o adv \o tail)), cache |-> ml.cache]
            ELSE [res |-> Returned(PyDict(core \o tail)), cache |-> c]

--------------------------------------------------------------------------
(* Lines a caller may send *)

\* whitespace, removed by line.strip() at either end
WS == [k |-> "ws", v |-> " "]

\* a strip that removes nothing
StripNothing(line) == line

RECURSIVE LStrip(_)
LStrip(line) == IF line # <<>> /\ Head(line) = WS THEN LStrip(Tail(line)) ELSE line

RECURSIVE RStrip(_)
RStrip(line) ==
    IF line # <<>> /\ line[Len(line)] = WS THEN RStrip(SubSeq(line, 1, Len(line) - 1)) ELSE line

Strip(line) == RStrip(LStrip(line))

NoId == "absent"

Ids == {"1", "2"}

IdPair(id) == IF id = NoId THEN <<>> ELSE << <<"id", PyStr(id)>> >>

\* {"id": id, "cmd": cmd}
CmdLine(id, cmd) == JsonDumps(PyDict(IdPair(id) \o << <<"cmd", cmd>> >>))

\* {"id": id, "cmd": "analyze", "audio_path": path}
AnalyzeLine(id, path) ==
    JsonDumps(PyDict(IdPair(id) \o << <<"cmd", PyStr("analyze")>>, <<"audio_path", path>> >>))

Paths == {"nofile.wav", "somedir", "corrupt.wav", "empty.wav", "silent.wav", "kick.wav"}

BlankLine == <<WS>>

\* a request cut off in the middle, after its id
TruncatedLine == <<P("{"), S("id"), P(":"), S("1"), P(",")>>

\* valid JSON that is no object
ArrayLine == <<P("["), N("1"), P("]")>>

Lines ==
    {BlankLine, TruncatedLine, ArrayLine}
    \cup {CmdLine("1", PyStr("ping")), CmdLine(NoId, PyStr("ping")),
          CmdLine("2", PyStr("shutdown")), CmdLine(NoId, PyStr("shutdown")),
          CmdLine("1", PyStr("bogus"))}
    \cup {AnalyzeLine("2", PyStr(p)) : p \in Paths}
    \cup {AnalyzeLine("2", PyList(<<PyNum("1")>>)),
          JsonDumps(PyDict(<< <<"id", PyStr("1")>>, <<"cmd", PyStr("analyze")>> >>)),
          <<WS>> \o JsonDumps(PyDict(<< <<"audio_path", PyStr("kick.wav")>> >>)) \o <<WS>>,
          JsonDumps(PyDict(<< <<"id", PyStr("1")>>, <<"audio_path", PyStr("kick.wav")>>,
                              <<"level", PyStr("basic")>> >>))}

--------------------------------------------------------------------------
(* Strings of the classifier: file names and instrument names are sequences *)
(* of one-character strings, so that `kw in name`, str.lower and re.search  *)
(* are computed on the characters.                                          *)

UpperCase == <<"A", "B", "C", "D", "E", "F", "G", "H", "I", "J", "K", "L", "M", "N", "O", "P", "Q", "R", "S", "T", "U", "V", "W", "X", "Y", "Z">>

LowerCase == <<"a", "b", "c", "d", "e", "f", "g", "h", "i", "j", "k", "l", "m", "n", "o", "p", "q", "r", "s", "t", "u", "v", "w", "x", "y", "z">>

\* str.lower(), character by character
LowerChar(ch) ==
    IF \E i \in 1..26 : UpperCase[i] = ch
    THEN LowerCase[CHOOSE i \in 1..26 : UpperCase[i] = ch]
    ELSE ch

ToLower(str) == [i \in 1..Len(str) |-> LowerChar(str[i])]

\* kw in str
Contains(str, kw) ==
    \E i \in 1..(Len(str) - Len(kw) + 1) : SubSeq(str, i, i + Len(kw) - 1) = kw

\* any(kw in str for kw in keywords)
AnyIn(keywords, str) == \E kw \in keywords : Contains(str, kw)

IsDigit(ch) == ch \in {"0", "1", "2", "3", "4", "5", "6", "7", "8", "9"}

IsSpace(ch) == ch \in {" ", "\t"}

\* re.search(r'\d+\s*bpm', str): a digit, any white space, then "bpm"
HasBpmHint(str) ==
    \E i \in 1..Len(str) :
        /\ IsDigit(str[i])
        /\ \E j \in (i + 1)..Len(str) :
              /\ \A m \in (i + 1)..(j - 1) : IsSpace(str[m])
              /\ j + 2 <= Len(str)
              /\ SubSeq(str, j, j + 2) = <<"b", "p", "m">>

perc_keywords ==
    {<<"k", "i", "c", "k">>, <<"s", "n", "a", "r", "e">>, <<"h", "a", "t">>,
     <<"h", "i", "h", "a", "t">>, <<"h", "i", "-", "h", "a", "t">>, <<"h", "h">>,
     <<"c", "r", "a", "s", "h">>, <<"r", "i", "d", "e">>, <<"t", "o", "m">>,
     <<"c", "l", "a", "p">>, <<"r", "i", "m">>, <<"s", "h", "a", "k", "e", "r">>,
     <<"t", "a", "m", "b", "o", "u", "r", "i", "n", "e">>,
     <<"c", "o", "w", "b", "e", "l", "l">>, <<"p", "e", "r", "c">>,
     <<"c", "o", "n", "g", "a">>, <<"b", "o", "n", "g", "o">>,
     <<"c", "y", "m", "b", "a", "l">>, <<"o", "p", "e", "n", "h", "a", "t">>,
     <<"c", "l", "o", "s", "e", "d", "h", "a", "t">>, <<"o", "h">>, <<"c", "h">>}

os_keywords ==
    {<<"s", "h", "o", "t">>, <<"h", "i", "t">>, <<"o", "n", "e">>,
     <<"s", "i", "n", "g", "l", "e">>, <<"o", "n", "e", "s", "h", "o", "t">>,
     <<"o", "n", "e", "-", "s", "h", "o", "t">>, <<"o", "n", "e", "_", "s", "h", "o", "t">>,
     <<"s", "t", "a", "b">>, <<"i", "m", "p", "a", "c", "t">>, <<"f", "x">>,
     <<"r", "i", "s", "e", "r">>, <<"s", "w", "e", "e", "p">>, <<"b", "o", "o", "m">>,
     <<"w", "h", "o", "o", "s", "h">>, <<"t", "r", "a", "n", "s", "i", "t", "i", "o", "n">>}

loop_keywords ==
    {<<"l", "o", "o", "p">>, <<"b", "e", "a", "t">>, <<"g", "r", "o", "o", "v", "e">>,
     <<"p", "a", "t", "t", "e", "r", "n">>, <<"b", "r", "e", "a", "k">>,
     <<"f", "i", "l", "l">>}

\* an optional str argument: None, or the characters
NoStr == [none |-> TRUE, chars |-> <<>>]

Str(chars) == [none |-> FALSE, chars |-> chars]

\* `if filename:` -- None and "" are both false
StrTruthy(f) == ~f.none /\ f.chars # <<>>

--------------------------------------------------------------------------
(* detect_sample_type.  Scores are counted in halves (5.0 is 10, 1.5 is 3), *)
(* durations in tenths of a second, ratios as cross-multiplied integers.    *)

\* a confidence value num / (den + eps), eps being the 1e-8 of the source
Conf(num, den, eps) == [num |-> num, den |-> den, eps |-> eps]

\* the literal 1.0
ConfOne == Conf(1, 1, FALSE)

Abs(x) == IF x < 0 THEN -x ELSE x

\* the confidence without the 1e-8 in the denominator
ConfidenceUnguarded(os_score, loop_score) ==
    Conf(Abs(os_score - loop_score), os_score + loop_score, FALSE)

\* confidence = abs(os_score - loop_score) / (os_score + loop_score + 1e-8)
Confidence(os_score, loop_score) == Conf(Abs(os_score - loop_score), os_score + loop_score, TRUE)

NoVerdict == [set |-> FALSE, is_one_shot |-> FALSE, is_loop |-> FALSE, confidence |-> Conf(0, 0, FALSE)]

Verdict(one, loop, conf) == [set |-> TRUE, is_one_shot |-> one, is_loop |-> loop, confidence |-> conf]

\* the hard rule with the threshold of the duration prior, 1.0
IsShortSubSecond(duration) == duration < 10

\* the hard rule: duration < 2.0
IsShort(duration) == duration < 20

\* lines 488-499: filename keywords
FilenameRule(c) ==
    IF StrTruthy(c.filename)
    THEN LET fname_lower == ToLower(c.filename.chars)
             perc == AnyIn(perc_keywords, fname_lower)
         IN [c EXCEPT !.is_percussion_sample = perc,
                      !.os_score = @ + (IF perc THEN 10 ELSE 0)
                                     + (IF AnyIn(os_keywords, fname_lower) THEN 8 ELSE 0),
                      !.loop_score = @ + (IF AnyIn(loop_keywords, fname_lower) THEN 8 ELSE 0)]
    ELSE c

\* a prediction names a percussion instrument at confidence >= 0.60
IsPercussionPrediction(pred) ==
    pred.confidence >= 60 /\ AnyIn(perc_keywords, ToLower(pred.name))

\* lines 504-517: pre-computed instrument predictions, bonus applied once
InstrumentRule(c) ==
    IF Len(c.preds) > 0 /\ ~c.is_percussion_sample
       /\ \E i \in 1..Len(c.preds) : IsPercussionPrediction(c.preds[i])
    THEN [c EXCEPT !.is_percussion_sample = TRUE, !.os_score = @ + 8]
    ELSE c

\* an override that does not look for loop hints in the file name
PercussionOverrideIgnoresHints(c) ==
    c.is_percussion_sample /\ StrTruthy(c.filename)

\* lines 656-665
PercussionOverrideApplies(c) ==
    /\ c.is_percussion_sample
    /\ StrTruthy(c.filename)
    /\ LET fname_lower == ToLower(c.filename.chars) IN
       ~(AnyIn(loop_keywords, fname_lower) \/ HasBpmHint(fname_lower))

\* the normal rule with a strict threshold, loop_score > 3.0
DecideLoopStrict(c) ==
    IF PercussionOverrideApplies(c)
    THEN c.loop_score > 16 /\ c.loop_score > c.os_score
    ELSE c.loop_score > 6 /\ c.loop_score > c.os_score

\* lines 667-683: is_loop
DecideLoop(c) ==
    IF PercussionOverrideApplies(c)
    THEN c.loop_score > 16 /\ c.loop_score > c.os_score
    ELSE c.loop_score >= 6 /\ c.loop_score > c.os_score

\* a decision that also asks for a duration above 8.0 s
FinalDecisionLong(c) ==
    LET is_loop == DecideLoop(c) /\ c.duration > 80 IN
    Verdict(~is_loop, is_loop, Confidence(c.os_score, c.loop_score))

\* lines 667-686
FinalDecision(c) ==
    LET is_loop == DecideLoop(c) IN
    Verdict(~is_loop, is_loop, Confidence(c.os_score, c.loop_score))

\* lines 530-569: the trimmed length of the RMS envelope.  rs, re: first and
\* last active frame; onsets: "raise", "none" or a record of first and last onset
TrimmedLen(rl, rs, re, onsets) ==
    IF rl > 10
    THEN LET onset_start == IF onsets.some THEN onsets.first ELSE rs
             onset_end   == IF onsets.some THEN onsets.last ELSE re
             trim_start  == IF rs < onset_start THEN rs ELSE onset_start
             trim_end    == (IF re > onset_end THEN re ELSE onset_end) + 1
         IN IF trim_end - trim_start >= 10 THEN trim_end - trim_start ELSE rl
    ELSE rl

\* inputs of one classifier run
Durations == {5, 19, 20, 30, 90}

Filenames ==
    {NoStr, Str(<<>>),
     Str(<<"K", "i", "c", "k", "_", "0", "1", ".", "w", "a", "v">>),
     Str(<<"p", "a", "d", ".", "w", "a", "v">>),
     Str(<<"s", "t", "a", "b", ".", "w", "a", "v">>),
     Str(<<"g", "r", "o", "o", "v", "e", "_", "l", "o", "o", "p", ".", "w", "a", "v">>),
     Str(<<"c", "l", "a", "p", "_", "l", "o", "o", "p", ".", "w", "a", "v">>),
     Str(<<"r", "i", "d", "e", "_", "1", "2", "8", " ", "b", "p", "m", ".", "w", "a", "v">>)}

Pred(name, confidence) == [name |-> name, confidence |-> confidence]

PredLists ==
    {<<>>,
     <<Pred(<<"h", "i", "h", "a", "t">>, 65)>>,
     <<Pred(<<"b", "a", "s", "s">>, 70), Pred(<<"p", "e", "r", "c", "u", "s", "s", "i", "o", "n">>, 55)>>,
     <<Pred(<<"s", "y", "n", "t", "h">>, 60), Pred(<<"S", "n", "a", "r", "e">>, 70)>>}

RmsLens == {8, 40}

NoOnsets == [some |-> FALSE, first |-> 0, last |-> 0]

Onsets(first, last) == [some |-> TRUE, first |-> first, last |-> last]

\* safe_onset_detect raised: the except clause leaves the empty array
FailedOnsets == [some |-> FALSE, first |-> 0, last |-> 0, failed |-> TRUE]

\* outcomes of safe_onset_detect(delta=0.15) inside the trim rule
TrimOnsets == {NoOnsets, FailedOnsets, Onsets(2, 5), Onsets(10, 39)}

\* first and last frame above 3% of the RMS peak
ActiveSpans(rl) == {<<0, rl - 1>>, <<0, (rl \div 2) - 1>>, <<3, 7>>}

\* what an earlier run of the classifier ended with
NoRun == [set |-> FALSE]

\* failed: the evidence rules one of whose extractions raised and was caught;
\* scored: the evidence rules that added to a score
StartCls(duration, filename, preds) ==
    [pc |-> "entry", duration |-> duration, filename |-> filename, preds |-> preds,
     os_score |-> 0, loop_score |-> 0, is_percussion_sample |-> FALSE,
     trimmed_len |-> 0, evaluated |-> <<>>, extractor_calls |-> 0, verdict |-> NoVerdict,
     failed |-> {}, scored |-> {}, prev |-> NoRun]

\* the rule r is recorded in the set when the condition holds
Mark(set, r, cond) == IF cond THEN set \cup {r} ELSE set

ClsStep(next) == /\ cls' = next
                 /\ UNCHANGED <<workerVars, run, fnVars>>

\* lines 467-473
ClsEntry ==
    /\ cls.pc = "entry"
    /\ IF IsShort(cls.duration)
       THEN ClsStep([cls EXCEPT !.pc = "done", !.verdict = Verdict(TRUE, FALSE, ConfOne)])
       ELSE ClsStep([cls EXCEPT !.pc = "filename"])

\* lines 475-499
ClsFilename ==
    /\ cls.pc = "filename"
    /\ ClsStep([FilenameRule(cls) EXCEPT !.pc = "instrument",
                                         !.evaluated = Append(@, "filename")])

\* lines 501-517
ClsInstrument ==
    /\ cls.pc = "instrument"
    /\ ClsStep([InstrumentRule(cls) EXCEPT !.pc = "rms_trim",
                                           !.evaluated = Append(@, "instrument")])

\* lines 519-569: RMS envelope and its trimming
ClsRmsTrim ==
    /\ cls.pc = "rms_trim"
    /\ \E rl \in RmsLens, onsets \in TrimOnsets : \E span \in ActiveSpans(rl) :
          LET tl == TrimmedLen(rl, span[1], span[2], onsets)
              detectorRan == rl > 10
              edges == rl > 10 /\ 4 * tl < 3 * rl
          IN ClsStep([cls EXCEPT !.pc = "rms_shape",
                                 !.trimmed_len = tl,
                                 !.os_score = @ + (IF edges THEN 3 ELSE 0),
                                 !.extractor_calls = @ + (IF detectorRan THEN 2 ELSE 1),
                                 !.failed = Mark(@, "rms_envelope", detectorRan /\ onsets = FailedOnsets),
                                 !.scored = Mark(@, "rms_envelope", edges),
                                 !.evaluated = Append(@, "rms_trim")])

\* line 520: librosa.feature.rms raises; no handler encloses the call, so the
\* exception leaves detect_sample_type
ClsRmsRaise ==
    /\ cls.pc = "rms_trim"
    /\ ClsStep([cls EXCEPT !.pc = "raised", !.extractor_calls = @ + 1])

\* lines 571-589: peak position and decay on the trimmed envelope.
\* ptr is peak_tail_ratio * 10, cv is rms_cv * 100
ClsRmsShape ==
    /\ cls.pc = "rms_shape"
    /\ \E peak_idx \in {0, cls.trimmed_len \div 2, cls.trimmed_len - 1},
          ptr \in {10, 20, 40}, cv \in {5, 50} :
          LET n == cls.trimmed_len
              early == 10 * peak_idx < 3 * n /\ ptr > 30
              late  == ~early /\ 10 * peak_idx > 8 * n
              flat  == ptr < 13 /\ cv < 15
          IN IF n > 10
             THEN ClsStep([cls EXCEPT !.pc = "start_end",
                              !.os_score = @ + (IF early THEN 4 ELSE IF late THEN 3 ELSE 0),
                              !.loop_score = @ + (IF flat THEN 2 ELSE 0),
                              !.scored = Mark(@, "rms_envelope", early \/ late \/ flat),
                              !.evaluated = Append(@, "rms_shape")])
             ELSE ClsStep([cls EXCEPT !.pc = "start_end",
                              !.evaluated = Append(@, "rms_shape")])

\* lines 591-608: start / end correlation; corr is the coefficient * 100,
\* "nan" for constant segments, "raise" when np.corrcoef fails
ClsStartEnd ==
    /\ cls.pc = "start_end"
    /\ \E corr \in {"raise", "nan", "10", "50", "90"} :
          LET n_frames == cls.trimmed_len
              scaled == (n_frames * 8) \div 100
              window_frames == IF scaled > 2 THEN scaled ELSE 2
              seg_len == IF window_frames < n_frames THEN window_frames ELSE n_frames
              compared == seg_len > 2
          IN ClsStep([cls EXCEPT !.pc = "periodicity",
                        !.os_score = @ + (IF compared /\ corr = "10" THEN 3 ELSE 0),
                        !.loop_score = @ + (IF compared /\ corr = "90" THEN 2 ELSE 0),
                        !.extractor_calls = @ + (IF compared THEN 1 ELSE 0),
                        !.failed = Mark(@, "start_end", compared /\ corr = "raise"),
                        !.scored = Mark(@, "start_end", compared /\ corr \in {"10", "90"}),
                        !.evaluated = Append(@, "start_end")])

\* lines 610-629: autocorrelation of the onset envelope; max_ac * 100
ClsPeriodicity ==
    /\ cls.pc = "periodicity"
    /\ \E env_len \in {10, 40}, max_ac \in {"raise", "10", "50", "80"} :
          LET judged == max_ac # "raise" /\ env_len > 20 IN
          ClsStep([cls EXCEPT !.pc = "onset_count",
                        !.loop_score = @ + (IF judged /\ max_ac = "80" THEN 3 ELSE 0),
                        !.os_score = @ + (IF judged /\ max_ac = "10" THEN 2 ELSE 0),
                        !.extractor_calls = @ + 1,
                        !.failed = Mark(@, "periodicity", max_ac = "raise"),
                        !.scored = Mark(@, "periodicity", judged /\ max_ac \in {"10", "80"}),
                        !.evaluated = Append(@, "periodicity")])

\* lines 631-641: number of onsets; -1 stands for safe_onset_detect raising
ClsOnsetCount ==
    /\ cls.pc = "onset_count"
    /\ \E n_onsets \in {-1, 0, 1, 2, 4} :
          ClsStep([cls EXCEPT !.pc = "duration_prior",
                        !.os_score = @ + (IF n_onsets \in {0, 1} THEN 4 ELSE 0),
                        !.loop_score = @ + (IF n_onsets >= 4 /\ cls.duration > 20 THEN 1 ELSE 0),
                        !.extractor_calls = @ + 1,
                        !.failed = Mark(@, "onset_count", n_onsets = -1),
                        !.scored = Mark(@, "onset_count",
                                        n_onsets \in {0, 1} \/ (n_onsets >= 4 /\ cls.duration > 20)),
                        !.evaluated = Append(@, "onset_count")])

\* lines 643-647
ClsDurationPrior ==
    /\ cls.pc = "duration_prior"
    /\ ClsStep([cls EXCEPT !.pc = "decide",
                  !.os_score = @ + (IF cls.duration < 10 THEN 2 ELSE 0),
                  !.loop_score = @ + (IF cls.duration >= 10 /\ cls.duration > 80 THEN 1 ELSE 0),
                  !.evaluated = Append(@, "duration_prior")])

\* lines 649-686
ClsDecide ==
    /\ cls.pc = "decide"
    /\ ClsStep([cls EXCEPT !.pc = "done", !.verdict = FinalDecision(cls)])

--------------------------------------------------------------------------
(* worker_loop *)

\* str(v) inside an f-string
PyFormat(v) ==
    CASE v.t = "str"  -> v.s
      [] v.t = "null" -> "None"
      [] v.t = "bool" -> IF v.b THEN "True" ELSE "False"
      [] v.t = "num"  -> v.n
      [] OTHER        -> "[...]"

ReadyLine == JsonDumps(PyDict(<< <<"status", PyStr("ready")>> >>))

\* the id is never picked up from the request
ReqIdNever(request) == PyNone

\* req_id = request.get("id", None)
ReqId(request) == Get(request, "id", PyNone)

\* the command is always taken to be the default
ReqCmdDefault(request) == PyStr("analyze")

\* cmd = request.get("cmd", "analyze")
ReqCmd(request) == Get(request, "cmd", PyStr("analyze"))

\* {"id": req_id, "result": value}
ResultResponse(req_id, value) == PyDict(<< <<"id", req_id>>, <<"result", value>> >>)

\* an error response that also carries a null result
ErrorResponseWithResult(req_id, message) ==
    PyDict(<< <<"id", req_id>>, <<"result", PyNone>>, <<"error", PyStr(message)>> >>)

\* {"id": req_id, "error": message}
ErrorResponse(req_id, message) == PyDict(<< <<"id", req_id>>, <<"error", PyStr(message)>> >>)

\* the response of the inner try around analyze_audio
AnalyzeResponse(req_id, res) ==
    IF res.raised THEN ErrorResponse(req_id, res.msg) ELSE ResultResponse(req_id, res.val)

\* a reply after which the loop always continues
ReplyContinue(branch, resp, c, called, stop) ==
    [branch |-> branch, resp |-> resp, cache |-> c, called |-> called, stop |-> FALSE]

Reply(branch, resp, c, called, stop) ==
    [branch |-> branch, resp |-> resp, cache |-> c, called |-> called, stop |-> stop]

\* the analyze branch without the os.path.isfile check
DispatchAnalyzeNoFileCheck(request, req_id, c, cfg, o1, o2) ==
    LET audio_path == Get(request, "audio_path", PyNone)
        level      == Get(request, "level", PyStr("advanced"))
    IN
    IF ~Truthy(audio_path)
    THEN Reply("no_path", ErrorResponse(req_id, "Missing audio_path"), c, FALSE, FALSE)
    ELSE IF OsPathExists(audio_path).raised
    THEN Reply("worker_error",
               ErrorResponse(req_id, "Worker error: " \o OsPathExists(audio_path).msg),
               c, FALSE, FALSE)
    ELSE IF ~OsPathExists(audio_path).val
    THEN Reply("not_found",
               ErrorResponse(req_id, "File not found: " \o PyFormat(audio_path)), c, FALSE, FALSE)
    ELSE LET a == analyze_audio(audio_path.s, level, c, cfg, o1, o2) IN
         Reply("analyze", AnalyzeResponse(req_id, a.res), a.cache, TRUE, FALSE)

\* the analyze branch with a pipeline failure ending the loop
DispatchAnalyzeFatal(request, req_id, c, cfg, o1, o2) ==
    LET audio_path == Get(request, "audio_path", PyNone)
        level      == Get(request, "level", PyStr("advanced"))
    IN
    IF ~Truthy(audio_path)
    THEN Reply("no_path", ErrorResponse(req_id, "Missing audio_path"), c, FALSE, FALSE)
    ELSE IF OsPathExists(audio_path).raised
    THEN Reply("worker_error",
               ErrorResponse(req_id, "Worker error: " \o OsPathExists(audio_path).msg),
               c, FALSE, FALSE)
    ELSE IF ~OsPathExists(audio_path).val
    THEN Reply("not_found",
               ErrorResponse(req_id, "File not found: " \o PyFormat(audio_path)), c, FALSE, FALSE)
    ELSE IF ~OsPathIsFile(audio_path).val
    THEN Reply("not_file",
               ErrorResponse(req_id, "Path is not a file: " \o PyFormat(audio_path)),
               c, FALSE, FALSE)
    ELSE LET a == analyze_audio(audio_path.s, level, c, cfg, o1, o2) IN
         Reply("analyze", AnalyzeResponse(req_id, a.res), a.cache, TRUE, a.res.raised)

\* the analyze branch, after audio_path, level and filename are read
DispatchAnalyze(request, req_id, c, cfg, o1, o2) ==
    LET audio_path == Get(request, "audio_path", PyNone)
        level      == Get(request, "level", PyStr("advanced"))
    IN
    IF ~Truthy(audio_path)
    THEN Reply("no_path", ErrorResponse(req_id, "Missing audio_path"), c, FALSE, FALSE)
    ELSE IF OsPathExists(audio_path).raised
    THEN Reply("worker_error",
               ErrorResponse(req_id, "Worker error: " \o OsPathExists(audio_path).msg),
               c, FALSE, FALSE)
    ELSE IF ~OsPathExists(audio_path).val
    THEN Reply("not_found",
               ErrorResponse(req_id, "File not found: " \o PyFormat(audio_path)), c, FALSE, FALSE)
    ELSE IF ~OsPathIsFile(audio_path).val
    THEN Reply("not_file",
               ErrorResponse(req_id, "Path is not a file: " \o PyFormat(audio_path)),
               c, FALSE, FALSE)
    ELSE LET a == analyze_audio(audio_path.s, level, c, cfg, o1, o2) IN
         Reply("analyze", AnalyzeResponse(req_id, a.res), a.cache, TRUE, FALSE)

\* the body of the for-loop for one non-blank stripped line
Dispatch(line, c, cfg, o1, o2) ==
    LET parsed == JsonLoads(line) IN
    IF parsed.raised
    THEN Reply("invalid_json", ErrorResponse(PyNone, "Invalid JSON: " \o parsed.msg),
               c, FALSE, FALSE)
    ELSE IF parsed.val.t # "dict"
    THEN \* request.get raises AttributeError while req_id is still None
         Reply("worker_error",
               ErrorResponse(PyNone, "Worker error: object has no attribute 'get'"),
               c, FALSE, FALSE)
    ELSE LET request == parsed.val
             req_id  == ReqId(request)
             cmd     == ReqCmd(request)
         IN
         IF cmd = PyStr("ping")
         THEN Reply("ping", ResultResponse(req_id, PyStr("pong")), c, FALSE, FALSE)
         ELSE IF cmd = PyStr("shutdown")
         THEN Reply("shutdown", ResultResponse(req_id, PyStr("bye")), c, FALSE, TRUE)
         ELSE IF cmd = PyStr("analyze")
         THEN DispatchAnalyze(request, req_id, c, cfg, o1, o2)
         ELSE Reply("unknown", ErrorResponse(req_id, "Unknown command: " \o PyFormat(cmd)),
                    c, FALSE, FALSE)

\* write the response d.resp of the loop body, flush, and continue or break
Handle(d, branches) ==
    /\ d.branch \in branches
    /\ out' = Append(out, JsonDumps(d.resp))
    /\ cache' = d.cache
    /\ calls' = IF d.called THEN calls + 1 ELSE calls
    /\ pc' = IF d.stop THEN "done" ELSE "read"
    /\ exitCause' = IF d.stop THEN "shutdown" ELSE exitCause
    /\ UNCHANGED <<cur, inLog, config, cls, run, fnVars>>

Startup ==
    /\ pc = "start"
    /\ out' = Append(out, ReadyLine)
    /\ pc' = "read"
    /\ UNCHANGED <<cur, inLog, calls, cache, config, exitCause, cls, run, fnVars>>

ReadLine ==
    /\ pc = "read"
    /\ Len(inLog) < MaxLines
    /\ \E line \in Lines :
          /\ inLog' = Append(inLog, line)
          /\ cur' = Strip(line)
          /\ pc' = IF Strip(line) = <<>> THEN "read" ELSE "dispatch"
    /\ UNCHANGED <<out, calls, cache, config, exitCause, cls, run, fnVars>>

EndOfInput ==
    /\ pc = "read"
    /\ pc' = "done"
    /\ exitCause' = "eof"
    /\ UNCHANGED <<cur, inLog, out, calls, cache, config, cls, run, fnVars>>

HandlePing ==
    /\ pc = "dispatch"
    /\ Handle(Dispatch(cur, cache, config, "ok", "ok"), {"ping"})

HandleShutdown ==
    /\ pc = "dispatch"
    /\ Handle(Dispatch(cur, cache, config, "ok", "ok"), {"shutdown"})

HandleAnalyzeRejected ==
    /\ pc = "dispatch"
    /\ Handle(Dispatch(cur, cache, config, "ok", "ok"), {"no_path", "not_found", "not_file"})

\* o1 and o2 are what the model loaders do when the pipeline reaches them
HandleAnalyze ==
    /\ pc = "dispatch"
    /\ \E o1 \in LoadOutcomes, o2 \in LoadOutcomes :
          Handle(Dispatch(cur, cache, config, o1, o2), {"analyze"})

HandleUnknown ==
    /\ pc = "dispatch"
    /\ Handle(Dispatch(cur, cache, config, "ok", "ok"), {"unknown"})

HandleInvalidJSON ==
    /\ pc = "dispatch"
    /\ Handle(Dispatch(cur, cache, config, "ok", "ok"), {"invalid_json"})

HandleWorkerError ==
    /\ pc = "dispatch"
    /\ Handle(Dispatch(cur, cache, config, "ok", "ok"), {"worker_error"})

IdleCls == [pc |-> "idle"]

IdleRun == [pc |-> "idle"]

Init ==
    /\ pc = "start"
    /\ cur = <<>>
    /\ inLog = <<>>
    /\ out = <<>>
    /\ calls = 0
    /\ cache = EmptyCache
    /\ \E safe \in BOOLEAN, useYamnet \in BOOLEAN :
          config = MakeConfig(safe, FALSE, FALSE, FALSE, useYamnet)
    /\ exitCause = "none"
    /\ cls = IdleCls
    /\ run = IdleRun
    /\ det = IdleRun /\ tagging = IdleRun /\ loads = <<>>

Next ==
    \/ Startup
    \/ ReadLine
    \/ EndOfInput
    \/ HandlePing
    \/ HandleShutdown
    \/ HandleAnalyzeRejected
    \/ HandleAnalyze
    \/ HandleUnknown
    \/ HandleInvalidJSON
    \/ HandleWorkerError

Spec == Init /\ [][Next]_vars

--------------------------------------------------------------------------
(* One run of detect_sample_type on inputs drawn from small sets *)

InitClassifier ==
    /\ pc = "start"
    /\ cur = <<>>
    /\ inLog = <<>>
    /\ out = <<>>
    /\ calls = 0
    /\ cache = EmptyCache
    /\ config = MakeConfig(FALSE, FALSE, FALSE, FALSE, FALSE)
    /\ exitCause = "none"
    /\ \E duration \in Durations, filename \in Filenames, preds \in PredLists :
          cls = StartCls(duration, filename, preds)
    /\ run = IdleRun
    /\ det = IdleRun /\ tagging = IdleRun /\ loads = <<>>

NextClassifier ==
    \/ ClsEntry
    \/ ClsFilename
    \/ ClsInstrument
    \/ ClsRmsTrim
    \/ ClsRmsRaise
    \/ ClsRmsShape
    \/ ClsStartEnd
    \/ ClsPeriodicity
    \/ ClsOnsetCount
    \/ ClsDurationPrior
    \/ ClsDecide

SpecClassifier == InitClassifier /\ [][NextClassifier]_vars

--------------------------------------------------------------------------
(* Two runs of detect_sample_type in one process, as two requests cause *)

\* inputs of the runs that are compared
PairInputs ==
    {[duration |-> 90, filename |-> Str(<<"p", "a", "d", ".", "w", "a", "v">>),
      preds |-> <<Pred(<<"h", "i", "h", "a", "t">>, 65)>>],
     [duration |-> 90, filename |-> Str(<<"s", "t", "a", "b", ".", "w", "a", "v">>), preds |-> <<>>],
     [duration |-> 90, filename |-> NoStr, preds |-> <<>>],
     [duration |-> 30, filename |-> NoStr, preds |-> <<>>]}

\* what a finished run leaves to compare the next one with
Finished(c) ==
    [set |-> TRUE, os_score |-> c.os_score, loop_score |-> c.loop_score,
     override |-> PercussionOverrideApplies(c), verdict |-> c.verdict]

\* the next request: detect_sample_type is entered again with fresh locals
ClsRestart ==
    /\ cls.pc = "done"
    /\ ~cls.prev.set
    /\ \E in \in PairInputs :
          ClsStep([StartCls(in.duration, in.filename, in.preds) EXCEPT !.prev = Finished(cls)])

InitClassifierPair ==
    /\ pc = "start"
    /\ cur = <<>>
    /\ inLog = <<>>
    /\ out = <<>>
    /\ calls = 0
    /\ cache = EmptyCache
    /\ config = MakeConfig(FALSE, FALSE, FALSE, FALSE, FALSE)
    /\ exitCause = "none"
    /\ \E in \in PairInputs : cls = StartCls(in.duration, in.filename, in.preds)
    /\ run = IdleRun
    /\ det = IdleRun /\ tagging = IdleRun /\ loads = <<>>

NextClassifierPair ==
    \/ NextClassifier
    \/ ClsRestart

SpecClassifierPair == InitClassifierPair /\ [][NextClassifierPair]_vars

--------------------------------------------------------------------------
(* analyze_audio stage by stage.  The FeatureRecord is a function from keys *)
(* to "null", "value" (a value the audio determines), "true", "false" or a  *)
(* number of milliseconds.                                                  *)

\* features.update(d): the keys of d are added, or overwritten
Update(rec, d) == d @@ rec

\* a dict with every key of the set bound to v
Fill(keys, v) == [k \in keys |-> v]

\* lines 290-326: the keys of the dict literal
CoreKeys ==
    {"duration", "sample_rate", "is_one_shot", "is_loop", "sample_type_confidence",
     "onset_count", "analysis_level", "spectral_centroid", "spectral_rolloff",
     "spectral_bandwidth", "spectral_contrast", "zero_crossing_rate", "mfcc_mean",
     "rms_energy", "loudness", "dynamic_range", "key_estimate", "scale", "key_strength",
     "polyphony", "bpm", "beats_count", "instrument_predictions", "spectral_flux",
     "spectral_flatness", "temporal_centroid", "crest_factor", "fundamental_frequency"}

\* the keys of the dict a stage's extractor returns
StageKeys(stage) ==
    CASE stage = "fingerprint" -> {"chromaprint_fingerprint", "similarity_hash"}
      [] stage = "mel"         -> {"mel_bands_mean", "mel_bands_std"}
      [] stage = "timbral"     -> {"dissonance", "inharmonicity", "tristimulus",
                                   "spectral_complexity", "spectral_crest"}
      [] stage = "perceptual"  -> {"brightness", "warmth", "hardness", "roughness", "sharpness"}
      [] stage = "stereo"      -> {"stereo_width", "panning_center", "stereo_imbalance"}
      [] stage = "hpss"        -> {"harmonic_percussive_ratio", "harmonic_energy",
                                   "percussive_energy", "harmonic_centroid",
                                   "percussive_centroid"}
      [] stage = "transient"   -> {"transient_spectral_centroid", "transient_spectral_flatness"}
      [] stage = "rhythm"      -> {"onset_rate", "beat_strength", "rhythmic_regularity",
                                   "danceability"}
      [] stage = "adsr"        -> {"attack_time", "decay_time", "sustain_level", "release_time",
                                   "envelope_type"}
      [] stage = "yamnet"      -> {"instrument_classes", "yamnet_embeddings"}
      [] stage = "panns"       -> {"instrument_classes", "ml_embeddings", "ml_embedding_model"}
      [] stage = "genre"       -> {"genre_classes", "genre_primary", "mood_classes"}
      [] stage = "loudness"    -> {"loudness_integrated", "loudness_range",
                                   "loudness_momentary_max", "true_peak"}
      [] stage = "events"      -> {"event_count", "event_density"}
      [] stage = "tags"        -> {"suggested_tags"}
      [] stage = "complete"    -> {"analysis_duration_ms"}
      [] OTHER                 -> {}

\* the stages whose extractor computes inside its own try block
FaultStages ==
    {"timbral", "stereo", "hpss", "transient", "rhythm", "adsr", "ml_instrument", "genre",
     "loudness", "events", "fingerprint", "tempo"}

\* the stages of one request in program order; the advanced block is 13..23
StageOrder ==
    <<"load", "preprocess", "spectral", "energy", "instruments", "classify", "additional",
      "key", "polyphony", "tempo", "build", "fingerprint",
      "timbral", "perceptual", "stereo", "hpss", "transient", "rhythm", "adsr",
      "ml_instrument", "genre", "loudness", "events",
      "tags", "complete">>

\* one call of analyze_audio: its arguments, what its stages will meet (the
\* audio in the file, the sub-stages whose computation raises, what the model
\* loaders meet) and its locals
StartRun(level, audio, faults, panns, yamnet) ==
    [pc |-> "load", level |-> level, audio |-> audio, faults |-> faults,
     panns |-> panns, yamnet |-> yamnet,
     trace |-> <<>>, features |-> Fill({}, "null"), result |-> "none",
     is_loop |-> FALSE, bpm |-> "null", y_percussive |-> "null", instrument_classes |-> "null",
     hpss_runs |-> 0, tempo_runs |-> 0, spectral_runs |-> 0, energy_runs |-> 0,
     native |-> {}, prev |-> NoRun]

\* the result dict of an extractor that starts from a dict of nulls and
\* computes inside one try block
Guarded(stage) == Fill(StageKeys(stage), IF stage \in run.faults THEN "null" ELSE "value")

\* a stage has run: the next position, the changed locals
RunStep(stage, next, changed) ==
    /\ run.pc = stage
    /\ run' = [changed EXCEPT !.pc = next, !.trace = Append(run.trace, stage)]

\* the outer except of analyze_audio: the exception is wrapped and raised
RunRaise(stage) ==
    /\ run.pc = stage
    /\ run' = [run EXCEPT !.pc = "raised", !.trace = Append(run.trace, stage),
                           !.result = "raised"]

pipeVars == <<pc, cur, inLog, out, calls, config, exitCause, cls, fnVars>>

\* a stage that leaves the model cache alone
PipeStep(stage, next, changed) ==
    /\ RunStep(stage, next, changed)
    /\ UNCHANGED <<pipeVars, cache>>

\* the module-level names essentia / acoustid are None when disabled
EssentiaAvailable(cfg) == ~cfg.DISABLE_ESSENTIA

AcoustidAvailable(cfg) == ~cfg.DISABLE_FINGERPRINT

\* lines 216-217: librosa.load
PipeLoad ==
    IF run.audio = "undecodable"
    THEN RunRaise("load") /\ UNCHANGED <<pipeVars, cache>>
    ELSE PipeStep("load", "preprocess", run)

\* line 222: preprocess_audio
PipePreprocess ==
    IF run.audio = "nosamples"
    THEN RunRaise("preprocess") /\ UNCHANGED <<pipeVars, cache>>
    ELSE PipeStep("preprocess", "spectral", run)

\* line 228
PipeSpectral ==
    PipeStep("spectral", "energy", [run EXCEPT !.spectral_runs = @ + 1])

\* line 232
PipeEnergy ==
    PipeStep("energy", "instruments", [run EXCEPT !.energy_runs = @ + 1])

\* lines 237-239
PipeInstruments == PipeStep("instruments", "classify", run)

\* lines 244-246: what detect_sample_type finds is a matter of the audio
PipeClassify ==
    PipeStep("classify", "additional", [run EXCEPT !.is_loop = (run.audio = "loop")])

\* lines 251-262: additional features, fundamental frequency of a one-shot
PipeAdditional == PipeStep("additional", "key", run)

\* lines 265-275: the key extractors ask Essentia when it is there
PipeKey ==
    PipeStep("key", "polyphony",
             IF run.level = "advanced" /\ EssentiaAvailable(config)
             THEN [run EXCEPT !.native = @ \cup {"essentia"}]
             ELSE run)

\* line 279: estimate_polyphony separates the harmonic component itself
PipePolyphony ==
    PipeStep("polyphony", "tempo", [run EXCEPT !.hpss_runs = @ + 1])

\* lines 283-287: tempo of a loop, at the advanced level only
PipeTempo ==
    PipeStep("tempo", "build",
             IF run.is_loop /\ run.level = "advanced"
             THEN [run EXCEPT !.tempo_runs = @ + 1,
                              !.bpm = IF "tempo" \in run.faults THEN "null" ELSE "value",
                              !.native = IF EssentiaAvailable(config)
                                         THEN @ \cup {"essentia"} ELSE @]
             ELSE run)

\* the dict literal of lines 290-326
PipeBuild ==
    LET keyed == IF run.level = "advanced" THEN "value" ELSE "null"
        built == [k \in CoreKeys |->
                    CASE k = "is_one_shot"    -> IF run.is_loop THEN "false" ELSE "true"
                      [] k = "is_loop"        -> IF run.is_loop THEN "true" ELSE "false"
                      [] k = "analysis_level" -> run.level
                      [] k \in {"key_estimate", "scale", "key_strength"} -> keyed
                      [] k \in {"bpm", "beats_count"} -> run.bpm
                      [] k = "fundamental_frequency" -> IF run.is_loop THEN "null" ELSE "value"
                      [] OTHER -> "value"]
    IN PipeStep("build", "fingerprint", [run EXCEPT !.features = built])

\* lines 330-332, at every level: the content hash always, the Chromaprint
\* fingerprint when acoustid is there and its call does not raise
PipeFingerprint ==
    LET chroma == AcoustidAvailable(config) /\ "fingerprint" \notin run.faults
        fp     == [k \in StageKeys("fingerprint") |->
                     IF k = "similarity_hash" \/ chroma THEN "value" ELSE "null"]
    IN PipeStep("fingerprint", "gate",
                [run EXCEPT !.features = Update(@, fp),
                            !.native = IF AcoustidAvailable(config)
                                       THEN @ \cup {"chromaprint"} ELSE @])

\* lines 335-341 without the level test: the block is entered at every level
PipeGateAnyLevel ==
    /\ run.pc = "gate"
    /\ run' = [run EXCEPT !.pc = "timbral",
                          !.features = Update(@, Fill(StageKeys("mel"), "value"))]
    /\ UNCHANGED <<pipeVars, cache>>

\* lines 335-341: only the advanced level enters the block; the mel bands
\* are in the spectral features exactly at that level
PipeGate ==
    /\ run.pc = "gate"
    /\ run' = IF run.level = "advanced"
              THEN [run EXCEPT !.pc = "timbral",
                               !.features = Update(@, Fill(StageKeys("mel"), "value"))]
              ELSE [run EXCEPT !.pc = "tags"]
    /\ UNCHANGED <<pipeVars, cache>>

\* lines 345-347: nulls without Essentia
PipeTimbral ==
    PipeStep("timbral", "perceptual",
             [run EXCEPT !.features = Update(@, IF EssentiaAvailable(config)
                                                THEN Guarded("timbral")
                                                ELSE Fill(StageKeys("timbral"), "null")),
                         !.native = IF EssentiaAvailable(config)
                                    THEN @ \cup {"essentia"} ELSE @])

\* lines 351-355: derived by arithmetic from the features already there
PipePerceptual ==
    PipeStep("perceptual", "stereo",
             [run EXCEPT !.features = Update(@, Fill(StageKeys("perceptual"), "value"))])

\* lines 359-361
PipeStereo ==
    PipeStep("stereo", "hpss",
             [run EXCEPT !.features = Update(@, Guarded("stereo"))])

\* lines 365-367: the percussive component is None when the separation raised
PipeHpss ==
    PipeStep("hpss", "transient",
             [run EXCEPT !.features = Update(@, Guarded("hpss")),
                         !.hpss_runs = @ + 1,
                         !.y_percussive = IF "hpss" \in run.faults THEN "null" ELSE "value"])

\* lines 371-373: the extractor is called only with a percussive component
PipeTransient ==
    PipeStep("transient", "rhythm",
             [run EXCEPT !.features = Update(@, IF run.y_percussive # "null"
                                                THEN Guarded("transient")
                                                ELSE Fill({}, "null"))])

\* lines 377-379: danceability needs a bpm
PipeRhythm ==
    LET d == Guarded("rhythm")
        rhythm == [k \in StageKeys("rhythm") |->
                     IF k = "danceability" /\ run.bpm = "null" THEN "null" ELSE d[k]]
    IN PipeStep("rhythm", "adsr", [run EXCEPT !.features = Update(@, rhythm)])

\* lines 383-385
PipeAdsr ==
    PipeStep("adsr", "ml_instrument",
             [run EXCEPT !.features = Update(@, Guarded("adsr"))])

\* extract_instrument_ml: the result dict, and what it attempted on the way
YamnetFeatures(c, cfg, outcome, fault) ==
    LET ld     == load_yamnet_model(c, cfg, outcome)
        usable == ld.model # "None" /\ ld.labels = "complete"
    IN [cache  |-> ld.cache,
        dict   |-> Fill(StageKeys("yamnet"), IF usable /\ ~fault THEN "value" ELSE "null"),
        native |-> (IF c.yamnet_model = "None" /\ TfAvailable(cfg) THEN {"ml_load"} ELSE {})
                   \cup (IF usable THEN {"ml_inference"} ELSE {})]

\* extract_instrument_ml_panns: the same for PANNs, whose loader asks no flag
PannsFeatures(c, outcome, fault) ==
    LET ld     == load_panns_model(c, outcome)
        usable == ld.model # "None" /\ ld.labels = "complete"
    IN [cache  |-> ld.cache,
        dict   |-> Fill(StageKeys("panns"), IF usable /\ ~fault THEN "value" ELSE "null"),
        native |-> (IF c.panns_model = "None" THEN {"ml_load"} ELSE {})
                   \cup (IF usable THEN {"ml_inference"} ELSE {})]

\* lines 389-401: PANNs first unless USE_YAMNET, YAMNet when PANNs gave no classes
MlInstrumentFeatures(c, cfg, r) ==
    LET fault == "ml_instrument" \in r.faults IN
    IF cfg.USE_YAMNET
    THEN YamnetFeatures(c, cfg, r.yamnet, fault)
    ELSE LET p == PannsFeatures(c, r.panns, fault) IN
         IF p.dict["instrument_classes"] = "null"
         THEN LET y == YamnetFeatures(p.cache, cfg, r.yamnet, fault) IN
              [y EXCEPT !.native = @ \cup p.native]
         ELSE p

PipeMlInstrument ==
    LET ml == MlInstrumentFeatures(cache, config, run) IN
    /\ RunStep("ml_instrument", "genre",
               [run EXCEPT !.features = Update(@, ml.dict),
                           !.instrument_classes = ml.dict["instrument_classes"],
                           !.native = @ \cup ml.native])
    /\ cache' = ml.cache
    /\ UNCHANGED pipeVars

\* lines 406-416: nothing is classified for a one-shot; without a bpm the
\* tempo is estimated again (lines 1709-1716)
PipeGenre ==
    PipeStep("genre", "loudness",
             [run EXCEPT !.features = Update(@, IF run.is_loop
                                                THEN Guarded("genre")
                                                ELSE Fill(StageKeys("genre"), "null")),
                         !.tempo_runs = IF run.is_loop /\ run.bpm = "null" /\ "genre" \notin run.faults
                                        THEN @ + 1 ELSE @])

\* lines 420-422
PipeLoudness ==
    PipeStep("loudness", "events",
             [run EXCEPT !.features = Update(@, Guarded("loudness"))])

\* lines 426-428
PipeEvents ==
    PipeStep("events", "tags",
             [run EXCEPT !.features = Update(@, Guarded("events"))])

\* lines 432-434
PipeTags ==
    PipeStep("tags", "complete",
             [run EXCEPT !.features = Update(@, Fill(StageKeys("tags"), "value"))])

\* lines 437-442: the elapsed wall-clock time is recorded, the record returned
PipeComplete ==
    \E ms \in {12, 13} :
        /\ RunStep("complete", "returned",
                   [run EXCEPT !.features = Update(@, Fill(StageKeys("complete"), ms)),
                               !.result = "returned"])
        /\ UNCHANGED <<pipeVars, cache>>

--------------------------------------------------------------------------
(* One request after another through analyze_audio in one process *)

\* the failure patterns that are tried: none, each single one, a pair, all
FaultPatterns ==
    {{}} \cup {{s} : s \in FaultStages} \cup {{"hpss", "tempo"}, FaultStages}

InitPipeline ==
    /\ pc = "start"
    /\ cur = <<>>
    /\ inLog = <<>>
    /\ out = <<>>
    /\ calls = 0
    /\ cache = EmptyCache
    /\ \E safe \in BOOLEAN, useYamnet \in BOOLEAN :
          config = MakeConfig(safe, FALSE, FALSE, FALSE, useYamnet)
    /\ exitCause = "none"
    /\ cls = IdleCls
    /\ \E level \in {"advanced", "basic"},
          audio \in {"undecodable", "nosamples", "oneshot", "loop"}, faults \in FaultPatterns,
          panns \in LoadOutcomes, yamnet \in LoadOutcomes :
          run = StartRun(level, audio, faults, panns, yamnet)
    /\ det = IdleRun /\ tagging = IdleRun /\ loads = <<>>

NextPipeline ==
    \/ PipeLoad
    \/ PipePreprocess
    \/ PipeSpectral
    \/ PipeEnergy
    \/ PipeInstruments
    \/ PipeClassify
    \/ PipeAdditional
    \/ PipeKey
    \/ PipePolyphony
    \/ PipeTempo
    \/ PipeBuild
    \/ PipeFingerprint
    \/ PipeGate
    \/ PipeTimbral
    \/ PipePerceptual
    \/ PipeStereo
    \/ PipeHpss
    \/ PipeTransient
    \/ PipeRhythm
    \/ PipeAdsr
    \/ PipeMlInstrument
    \/ PipeGenre
    \/ PipeLoudness
    \/ PipeEvents
    \/ PipeTags
    \/ PipeComplete

SpecPipeline == InitPipeline /\ [][NextPipeline]_vars

\* the same request again in the same process: same file, level and
\* surroundings, fresh locals, the model cache as the first run left it
PipeRestart ==
    /\ run.pc = "returned"
    /\ ~run.prev.set
    /\ run' = [StartRun(run.level, run.audio, run.faults, run.panns, run.yamnet)
                  EXCEPT !.prev = [set |-> TRUE, features |-> run.features]]
    /\ UNCHANGED <<pipeVars, cache>>

NextPipelinePair ==
    \/ NextPipeline
    \/ PipeRestart

SpecPipelinePair == InitPipeline /\ [][NextPipelinePair]_vars

--------------------------------------------------------------------------
(* The model loaders over the requests of one process *)

MaxRequests == 4

\* one call of a loader: the globals it found and left, what it handed out,
\* and whether it got as far as loading (hub.load, AudioTagging)
LoaderCall(name, before, ld, invoked) ==
    [loader |-> name, before |-> before, after |-> ld.cache,
     model |-> ld.model, labels |-> ld.labels, invoked |-> invoked]

\* lines 389-401: the loader calls of the ML stage of one request
MlStageCalls(c, cfg, po, yo) ==
    LET yamnet(c0) == LoaderCall("yamnet", c0, load_yamnet_model(c0, cfg, yo),
                                 c0.yamnet_model = "None" /\ TfAvailable(cfg))
        p == PannsFeatures(c, po, FALSE)
    IN IF cfg.USE_YAMNET
       THEN <<yamnet(c)>>
       ELSE <<LoaderCall("panns", c, load_panns_model(c, po), c.panns_model = "None")>>
            \o (IF p.dict["instrument_classes"] = "null" THEN <<yamnet(p.cache)>> ELSE <<>>)

\* one advanced request reaches its ML stage
ServeMlStage ==
    /\ calls < MaxRequests
    /\ \E po \in LoadOutcomes, yo \in LoadOutcomes :
          LET made == MlStageCalls(cache, config, po, yo) IN
          /\ loads' = loads \o made
          /\ cache' = made[Len(made)].after
    /\ calls' = calls + 1
    /\ UNCHANGED <<pc, cur, inLog, out, config, exitCause, cls, run, det, tagging>>

InitLoader ==
    /\ pc = "start"
    /\ cur = <<>>
    /\ inLog = <<>>
    /\ out = <<>>
    /\ calls = 0
    /\ cache = EmptyCache
    /\ \E safe \in BOOLEAN, useYamnet \in BOOLEAN :
          config = MakeConfig(safe, FALSE, FALSE, FALSE, useYamnet)
    /\ exitCause = "none"
    /\ cls = IdleCls
    /\ run = IdleRun
    /\ det = IdleRun /\ tagging = IdleRun /\ loads = <<>>

SpecLoader == InitLoader /\ [][ServeMlStage]_vars

--------------------------------------------------------------------------
(* safe_onset_detect.  The float64 format is cut down to the values         *)
(* 0..FloatMax, inf and nan: the least positive value is 1, a product       *)
(* beyond FloatMax overflows to inf, a half that is not a value rounds to   *)
(* even, inf/inf is nan and every comparison with nan is false.             *)

MaxEnvLen == 3

MaxEnvVal == 2

FloatMax == 3

Inf == FloatMax + 1

NaN == 0 - 1

Max(xs) == CHOOSE x \in xs : \A y \in xs : y <= x

Min(xs) == CHOOSE x \in xs : \A y \in xs : x <= y

\* c * x in the cut-down format
Scale(x, c) ==
    CASE c = "double" -> IF 2 * x > FloatMax THEN Inf ELSE 2 * x
      [] c = "half"   -> IF x % 2 = 0 THEN x \div 2
                         ELSE IF ((x + 1) \div 2) % 2 = 0 THEN (x + 1) \div 2
                         ELSE (x - 1) \div 2

\* no element of c * e overflowed or was rounded
ScalesExactly(e, c) ==
    \A i \in 1..Len(e) :
        IF c = "double" THEN Scale(e[i], c) # Inf ELSE e[i] % 2 = 0

\* lines 78-84 with the flat envelope normalised to zeros instead of returned
NormalizeFlatToZeros(e) ==
    IF Len(e) = 0 THEN [kind |-> "raised", den |-> 1, num |-> <<>>]
    ELSE LET vals     == {e[i] : i \in 1..Len(e)}
             oenv_min == Min(vals)
             oenv_max == Max(vals)
         IN IF ~(oenv_max > oenv_min)
            THEN [kind |-> "ok", den |-> 1, num |-> [i \in 1..Len(e) |-> 0]]
            ELSE IF oenv_max = Inf
            THEN [kind |-> "ok", den |-> 1,
                  num |-> [i \in 1..Len(e) |-> IF e[i] = Inf THEN NaN ELSE 0]]
            ELSE [kind |-> "ok", den |-> oenv_max - oenv_min,
                  num |-> [i \in 1..Len(e) |-> e[i] - oenv_min]]

\* lines 78-84: np.min of an empty array raises; a flat envelope returns at
\* once; else every value becomes num[i] / den.  With an inf maximum the
\* finite values become 0 and the infinite ones nan.
Normalize(e) ==
    IF Len(e) = 0 THEN [kind |-> "raised", den |-> 1, num |-> <<>>]
    ELSE LET vals     == {e[i] : i \in 1..Len(e)}
             oenv_min == Min(vals)
             oenv_max == Max(vals)
         IN IF ~(oenv_max > oenv_min)
            THEN [kind |-> "flat", den |-> 1, num |-> <<>>]
            ELSE IF oenv_max = Inf
            THEN [kind |-> "ok", den |-> 1,
                  num |-> [i \in 1..Len(e) |-> IF e[i] = Inf THEN NaN ELSE 0]]
            ELSE [kind |-> "ok", den |-> oenv_max - oenv_min,
                  num |-> [i \in 1..Len(e) |-> e[i] - oenv_min]]

\* the indices of x[max(0, i - before) : min(n, i + after + 1)]
Window(n, i, before, after) == {k \in 0..(n - 1) : i - before <= k /\ k <= i + after}

RECURSIVE SumOver(_, _)
SumOver(o, A) ==
    IF A = {} THEN 0
    ELSE LET k == CHOOSE j \in A : TRUE IN o[k + 1] + SumOver(o, A \ {k})

\* lines 104-107: np.max of a window holding nan is nan, and x != nan
IsLocalMax(o, p, i) ==
    LET W == {o[k + 1] : k \in Window(Len(o), i, p.pre_max, p.post_max)} IN
    NaN \notin W /\ o[i + 1] = Max(W)

\* lines 110-113 on values that line 82 did not divide by the range
AboveMeanUnscaled(o, den, p, i) ==
    LET A == Window(Len(o), i, p.pre_avg, p.post_avg)
        len == Cardinality(A)
    IN IF \E k \in A : o[k + 1] = NaN THEN TRUE
       ELSE ~(o[i + 1] * len * p.delta.den
                < SumOver(o, A) * p.delta.den + p.delta.num * len)

\* lines 110-113: not (x[i] < mean + delta), in whole numbers
AboveMean(o, den, p, i) ==
    LET A == Window(Len(o), i, p.pre_avg, p.post_avg)
        len == Cardinality(A)
    IN IF \E k \in A : o[k + 1] = NaN THEN TRUE
       ELSE ~(o[i + 1] * len * p.delta.den
                < SumOver(o, A) * p.delta.den + p.delta.num * den * len)

\* lines 103-117 without the test of line 116
AcceptsWithoutWait(o, den, p, i, last_peak) ==
    /\ IsLocalMax(o, p, i)
    /\ AboveMean(o, den, p, i)

\* lines 103-117: the three conditions on frame i
Accepts(o, den, p, i, last_peak) ==
    /\ IsLocalMax(o, p, i)
    /\ AboveMean(o, den, p, i)
    /\ ~(i - last_peak <= p.wait)

\* lines 102-120: for i in range(pre_max, n - post_max)
RECURSIVE PickPeaks(_, _, _, _, _, _)
PickPeaks(o, den, p, i, last_peak, peaks) ==
    IF i >= Len(o) - p.post_max THEN peaks
    ELSE IF Accepts(o, den, p, i, last_peak)
    THEN PickPeaks(o, den, p, i + 1, i, Append(peaks, i))
    ELSE PickPeaks(o, den, p, i + 1, last_peak, peaks)

\* lines 128-134: the first minimum of energy[max(0, frame - 2 * pre_max) : frame + 1]
Backtracked(frame, energy, p) ==
    LET segment == {k \in 0..(Len(energy) - 1) : frame - 2 * p.pre_max <= k /\ k <= frame} IN
    IF segment = {} THEN frame
    ELSE Min({k \in segment : \A j \in segment : energy[k + 1] <= energy[j + 1]})

\* lines 77-142 with units = 'frames'; y_given: the caller passed the signal
safe_onset_detect(e, p, energy) ==
    LET nm == Normalize(e) IN
    IF nm.kind # "ok"
    THEN [raised |-> nm.kind = "raised", peaks |-> <<>>, frames |-> <<>>, walked |-> FALSE]
    ELSE LET peaks == PickPeaks(nm.num, nm.den, p, p.pre_max, -p.wait - 1, <<>>)
             walk  == p.backtrack /\ Len(peaks) > 0 /\ p.y_given
         IN [raised |-> FALSE, peaks |-> peaks, walked |-> walk,
             frames |-> IF walk
                        THEN [k \in 1..Len(peaks) |-> Backtracked(peaks[k], energy, p)]
                        ELSE peaks]

\* the envelopes and keyword arguments that are tried
Envelopes == UNION {[1..n -> 0..MaxEnvVal] : n \in 0..MaxEnvLen}

Params ==
    {p \in [pre_max : 0..2, post_max : 0..1, pre_avg : {2}, post_avg : {1}, wait : 0..2,
            delta : {[num |-> 0, den |-> 1], [num |-> 1, den |-> 2]},
            backtrack : BOOLEAN, y_given : BOOLEAN] :
        p.backtrack \/ p.y_given}

\* librosa.feature.rms(y): one energy value per frame
EnergyCurves(p, n) ==
    IF p.backtrack /\ p.y_given THEN [1..n -> 0..1] ELSE {<<>>}

NotScaled == [set |-> FALSE]

\* the call returns or raises
OnsetDetect ==
    /\ det.pc = "call"
    /\ \E energy \in EnergyCurves(det.p, Len(det.env)) :
          LET r == safe_onset_detect(det.env, det.p, energy) IN
          det' = [det EXCEPT !.pc = IF r.raised THEN "raised" ELSE "done",
                             !.energy = energy, !.peaks = r.peaks, !.frames = r.frames,
                             !.walked = r.walked]
    /\ UNCHANGED <<workerVars, cls, run, tagging, loads>>

\* the same call on c * e
OnsetDetectScaled ==
    /\ det.pc = "done"
    /\ \E c \in {"half", "double"} :
          LET r == safe_onset_detect([i \in 1..Len(det.env) |-> Scale(det.env[i], c)],
                                     det.p, det.energy) IN
          det' = [det EXCEPT !.pc = "compared",
                             !.scaled = [set |-> TRUE, c |-> c,
                                         exact |-> ScalesExactly(det.env, c),
                                         frames |-> r.frames]]
    /\ UNCHANGED <<workerVars, cls, run, tagging, loads>>

InitOnset ==
    /\ pc = "start"
    /\ cur = <<>>
    /\ inLog = <<>>
    /\ out = <<>>
    /\ calls = 0
    /\ cache = EmptyCache
    /\ config = MakeConfig(FALSE, FALSE, FALSE, FALSE, FALSE)
    /\ exitCause = "none"
    /\ cls = IdleCls
    /\ run = IdleRun
    /\ tagging = IdleRun /\ loads = <<>>
    /\ \E e \in Envelopes, p \in Params :
          det = [pc |-> "call", env |-> e, p |-> p, energy |-> <<>>, peaks |-> <<>>,
                 frames |-> <<>>, walked |-> FALSE, scaled |-> NotScaled]

NextOnset ==
    \/ OnsetDetect
    \/ OnsetDetectScaled

SpecOnset == InitOnset /\ [][NextOnset]_vars

--------------------------------------------------------------------------
(* generate_tags.  Confidences are in hundredths. *)

MaxTagInputs == 2

\* lines 2425-2429: the class name lowered and stripped of its prefixes; the
\* empty string stands for a name in the blocklist or holding '/m/'
ClassTag(class) ==
    CASE class = "Kick drum"                    -> "kick drum"
      [] class = "Musical instrument, kick"     -> "kick"
      [] class = "Music, Kick drum"             -> "kick drum"
      [] class = "Music"                        -> ""
      [] class = "/m/07rwj"                     -> ""
      [] OTHER                                  -> class

\* lines 2405-2431: the appends of the two loops, in order
RECURSIVE CollectTags(_, _, _)
CollectTags(preds, classes, i) ==
    IF i <= Len(preds)
    THEN (IF preds[i].confidence > 55 THEN <<preds[i].name>> ELSE <<>>)
         \o CollectTags(preds, classes, i + 1)
    ELSE IF i - Len(preds) <= Len(classes)
    THEN LET instrument == classes[i - Len(preds)] IN
         (IF instrument.confidence >= 60 /\ ClassTag(instrument.class) # ""
          THEN <<ClassTag(instrument.class)>> ELSE <<>>)
         \o CollectTags(preds, classes, i + 1)
    ELSE <<>>

\* list(dict.fromkeys(tags)) keeping the last occurrence instead of the first
RECURSIVE FromKeysKeepLast(_)
FromKeysKeepLast(tags) ==
    IF tags = <<>> THEN <<>>
    ELSE IF \E j \in 2..Len(tags) : tags[j] = tags[1]
    THEN FromKeysKeepLast(Tail(tags))
    ELSE <<tags[1]>> \o FromKeysKeepLast(Tail(tags))

\* line 2434: list(dict.fromkeys(tags))
RECURSIVE FromKeys(_)
FromKeys(tags) ==
    IF tags = <<>> THEN <<>>
    ELSE LET n == Len(tags)
             front == FromKeys(SubSeq(tags, 1, n - 1))
         IN IF \E j \in 1..(n - 1) : tags[j] = tags[n] THEN front ELSE Append(front, tags[n])

\* features.get('instrument_classes') is None: the second loop is skipped
generate_tags(features) ==
    FromKeys(CollectTags(features.instrument_predictions,
                         IF features.instrument_classes.some
                         THEN features.instrument_classes.items ELSE <<>>, 1))

SeqsUpTo(xs, n) == UNION {[1..k -> xs] : k \in 0..n}

\* the parts of a FeatureRecord that generate_tags reads
TagInputs ==
    [instrument_predictions :
        SeqsUpTo([name : {"kick", "kick drum"}, confidence : {55, 60}], MaxTagInputs),
     instrument_classes :
        {[some |-> FALSE, items |-> <<>>]} \cup
        [some : {TRUE},
         items : SeqsUpTo([class : {"Kick drum", "Musical instrument, kick", "Music", "snare"},
                           confidence : {59, 60}], MaxTagInputs)]]

GenerateTags ==
    /\ tagging.pc = "call"
    /\ tagging' = [tagging EXCEPT !.pc = "done", !.tags = generate_tags(tagging.features)]
    /\ UNCHANGED <<workerVars, cls, run, det, loads>>

InitTags ==
    /\ pc = "start"
    /\ cur = <<>>
    /\ inLog = <<>>
    /\ out = <<>>
    /\ calls = 0
    /\ cache = EmptyCache
    /\ config = MakeConfig(FALSE, FALSE, FALSE, FALSE, FALSE)
    /\ exitCause = "none"
    /\ cls = IdleCls
    /\ run = IdleRun
    /\ det = IdleRun /\ loads = <<>>
    /\ \E f \in TagInputs :
          tagging = [pc |-> "call", given |-> f, features |-> f, tags |-> <<>>]

SpecTags == InitTags /\ [][GenerateTags]_vars

--------------------------------------------------------------------------
(* Reading the worker's streams back *)

IsBlank(line) == \A i \in 1..Len(line) : line[i] = WS

IsText(tok) == tok # WS

\* the text of a line without surrounding white space
Trimmed(line) == SelectSeq(line, IsText)

IsRequest(line) == ~IsBlank(line)

\* the non-blank lines read so far, in order
Requests == SelectSeq(inLog, IsRequest)

\* the j-th request has its response on stdout
Answered(j) == j + 1 <= Len(out)

ResponseTo(j) == ParseText(out[j + 1], TRUE)

\* a line as json.loads reads it: q below is such a reading
Read(line) == JsonLoads(Trimmed(line))

\* the j-th request as json.loads reads it
Request(j) == Read(Requests[j])

IsObject(q) == ~q.raised /\ q.val.t = "dict"

HasCmd(q, name) == IsObject(q) /\ Get(q.val, "cmd", PyStr("analyze")) = PyStr(name)

\* the id of a request as JSON text: "X" or null
IdToken(q) == IF HasKey(q.val, "id") THEN Tokens(Lookup(q.val, "id")) ELSE <<L("null")>>

\* an analyze request naming an existing regular file
IsFileRequest(q) ==
    /\ HasCmd(q, "analyze")
    /\ HasKey(q.val, "audio_path")
    /\ Lookup(q.val, "audio_path").t = "str"
    /\ FileSystem(Lookup(q.val, "audio_path").s).isfile

AudioOf(q) == FileSystem(Lookup(q.val, "audio_path").s).audio

HasResult(r) == r.ok /\ r.val.t = "dict" /\ HasKey(r.val, "result")

HasError(r) == r.ok /\ r.val.t = "dict" /\ HasKey(r.val, "error")

--------------------------------------------------------------------------
(* C1: every response line carries exactly one of the keys result and error, *)
(* whatever lines were sent before it.                                       *)
ResultXorError ==
    \A i \in 2..Len(out) :
        LET r == ParseText(out[i], TRUE) IN
        /\ r.ok /\ r.val.t = "dict"
        /\ HasResult(r) # HasError(r)

\* a run that has answered with a result and, to a line that is no object or
\* no JSON, with an error
C1Witness ==
    /\ Len(out) >= 3
    /\ \E i \in 2..Len(out) : HasResult(ParseText(out[i], TRUE))
    /\ \E j \in 1..Len(Requests) :
          Answered(j) /\ ~IsObject(Request(j)) /\ HasError(ResponseTo(j))

--------------------------------------------------------------------------
(* C2: stdout is the ready line, once and first, then one response per      *)
(* non-blank line read, in input order; a line is read only when every      *)
(* earlier one has its response, and nothing is read after a shutdown.      *)
OneResponsePerLineInOrder ==
    /\ pc = "start" => out = <<>> /\ inLog = <<>>
    /\ pc # "start" => /\ out[1] = ReadyLine
                       /\ \A i \in 2..Len(out) : out[i] # ReadyLine
    /\ pc \in {"read", "done"} => Len(out) = 1 + Len(Requests)
    /\ pc = "dispatch" => /\ Len(out) = Len(Requests)
                          /\ ~IsBlank(inLog[Len(inLog)])
    /\ \A k \in 1..(Len(inLog) - 1) : ~HasCmd(Read(inLog[k]), "shutdown")
    /\ \A j \in 1..Len(Requests) :
          LET q == Request(j)
              r == ResponseTo(j)
          IN
          (Answered(j) /\ IsObject(q)) =>
             /\ r.ok
             /\ Tokens(Get(r.val, "id", PyStr("?"))) = IdToken(q)

\* two requests with different ids were read and answered, one after the other
C2Witness ==
    /\ pc = "read"
    /\ Len(out) = 3
    /\ IsObject(Request(1)) /\ IsObject(Request(2))
    /\ IdToken(Request(1)) # IdToken(Request(2))

\* a blank line was read and skipped without a response
C2WitnessBlank ==
    /\ Len(inLog) > Len(Requests)
    /\ Len(out) >= 2

--------------------------------------------------------------------------
(* C3: the response to a line that parses as a JSON object carries that     *)
(* object's id (null when it has none); the response to any other line      *)
(* carries the id null.                                                     *)
IdEchoed ==
    \A j \in 1..Len(Requests) :
        LET q == Request(j)
            r == ResponseTo(j)
        IN
        Answered(j) =>
            /\ r.ok /\ r.val.t = "dict"
            /\ HasKey(r.val, "id")
            /\ Lookup(r.val, "id") =
                  (IF IsObject(q) /\ HasKey(q.val, "id") THEN Lookup(q.val, "id") ELSE PyNone)

\* an error response and a result response, each echoing a different id, and
\* a truncated line (which spells an id) answered with the id null
C3Witness ==
    /\ Len(out) = 3
    /\ \E i \in 1..2, j \in 1..2 :
          /\ HasError(ResponseTo(i)) /\ HasResult(ResponseTo(j))
          /\ Lookup(ResponseTo(i).val, "id") = PyStr("2")
          /\ Lookup(ResponseTo(j).val, "id") = PyStr("1")

C3WitnessTruncated ==
    \E j \in 1..Len(Requests) :
        /\ Answered(j) /\ Trimmed(Requests[j]) = TruncatedLine
        /\ Lookup(ResponseTo(j).val, "id") = PyNone

--------------------------------------------------------------------------
(* C4: a malformed line, an unknown command and an analyze request whose    *)
(* audio_path is missing, nonexistent or no regular file are each answered  *)
(* by one error response, without a call of the pipeline, and the loop      *)
(* keeps reading.                                                           *)

\* the request-shape errors of the claim
IsShapeError(q) ==
    \/ ~IsObject(q)
    \/ /\ IsObject(q)
       /\ ~HasCmd(q, "ping") /\ ~HasCmd(q, "shutdown") /\ ~HasCmd(q, "analyze")
    \/ /\ HasCmd(q, "analyze")
       /\ \/ ~HasKey(q.val, "audio_path")
          \/ /\ Lookup(q.val, "audio_path").t = "str"
             /\ ~FileSystem(Lookup(q.val, "audio_path").s).isfile

\* the number of answered requests that name a regular file
RECURSIVE FileRequestsUpTo(_)
FileRequestsUpTo(j) ==
    IF j <= 0 THEN 0
    ELSE FileRequestsUpTo(j - 1) + (IF IsFileRequest(Request(j)) THEN 1 ELSE 0)

ShapeErrorsAnsweredInBand ==
    /\ \A j \in 1..Len(Requests) :
          LET q == Request(j)
              r == ResponseTo(j)
          IN
          (Answered(j) /\ IsShapeError(q)) =>
             /\ HasError(r) /\ ~HasResult(r)
             /\ r.val.pairs[2][2].t = "str"
             /\ (j = Len(Requests) => pc = "read" \/ (pc = "done" /\ exitCause = "eof"))
    /\ calls = FileRequestsUpTo(Len(out) - 1)

\* an analyze request naming a directory was refused, and the next request got
\* its result from the one pipeline call so far
C4Witness ==
    /\ Len(out) = 3
    /\ IsShapeError(Request(1))
    /\ HasCmd(Request(1), "analyze")
    /\ HasKey(Request(1).val, "audio_path")
    /\ FileSystem(Lookup(Request(1).val, "audio_path").s).exists
    /\ HasResult(ResponseTo(2))
    /\ calls = 1

--------------------------------------------------------------------------
(* C5: the response to a shutdown request with id X is exactly              *)
(* {"id": X, "result": "bye"}, it is the last line written, the loop has    *)
(* ended and the request is the last line read.                             *)
ByeLine(q) ==
    <<P("{"), S("id"), P(":")>> \o IdToken(q) \o <<P(","), S("result"), P(":"), S("bye"), P("}")>>

ShutdownIsLast ==
    \A j \in 1..Len(Requests) :
        LET q == Request(j) IN
        (Answered(j) /\ HasCmd(q, "shutdown")) =>
            /\ out[j + 1] = ByeLine(q)
            /\ Len(out) = j + 1
            /\ j = Len(Requests)
            /\ inLog[Len(inLog)] = Requests[j]
            /\ pc = "done"

\* a shutdown with an id, answered after an earlier request
C5Witness ==
    /\ Len(out) = 3
    /\ HasCmd(Request(2), "shutdown")
    /\ HasKey(Request(2).val, "id")
    /\ exitCause = "shutdown"

--------------------------------------------------------------------------
(* C6: a request whose mandatory stage (load, preprocessing) raises is      *)
(* answered by {id, error} with the wrapped message; the loop ends only by  *)
(* shutdown or end of input, and requests read later are answered.          *)
IsFailingRequest(q) == IsFileRequest(q) /\ AudioOf(q) \in {"undecodable", "nosamples"}

PipelineFailureIsPerRequest ==
    /\ \A j \in 1..Len(Requests) :
          LET q == Request(j) IN
          (Answered(j) /\ IsFailingRequest(q)) =>
             /\ out[j + 1] = <<P("{"), S("id"), P(":")>> \o IdToken(q)
                             \o <<P(","), S("error"), P(":"),
                                  S("Audio analysis failed: " \o StageError(AudioOf(q))),
                                  P("}")>>
             /\ (j = Len(Requests) => pc = "read" \/ (pc = "done" /\ exitCause = "eof"))
    /\ pc = "done" <=> exitCause \in {"shutdown", "eof"}
    /\ exitCause = "shutdown" => HasCmd(Read(inLog[Len(inLog)]), "shutdown")
    /\ pc \in {"read", "done"} => \A j \in 1..Len(Requests) : Answered(j)

\* a failed analysis followed by a request that got its result
C6Witness ==
    /\ Len(out) = 3
    /\ IsFailingRequest(Request(1))
    /\ HasResult(ResponseTo(2))

--------------------------------------------------------------------------
(* C8: handling a ping with id X appends exactly {"id": X, "result":        *)
(* "pong"}, does not call the pipeline and leaves the model cache and the   *)
(* configuration as they are.                                               *)
PongLine(q) ==
    <<P("{"), S("id"), P(":")>> \o IdToken(q) \o <<P(","), S("result"), P(":"), S("pong"), P("}")>>

PingIsPure ==
    [][(pc = "dispatch" /\ HasCmd(Read(cur), "ping")) =>
          /\ out' = Append(out, PongLine(Read(cur)))
          /\ calls' = calls
          /\ cache' = cache
          /\ config' = config
          /\ pc' = "read"]_vars

\* a ping answered after an analysis that filled the model cache
C8Witness ==
    /\ Len(out) = 3
    /\ HasCmd(Request(2), "ping")
    /\ cache # EmptyCache
    /\ calls = 1

--------------------------------------------------------------------------
(* C7: every line on stdout reads as valid JSON, whatever FeatureRecord the *)
(* pipeline returned.                                                       *)
EveryResponseValidJSON == \A i \in 1..Len(out) : ValidJSON(out[i])

--------------------------------------------------------------------------
(* C9: a run on a duration below 2.0 s ends with (True, False, 1.0), both   *)
(* scores 0, no rule evaluated and no extractor called, whatever the file   *)
(* name and the instrument predictions.                                     *)
ShortIsOneShot ==
    cls.pc # "idle" /\ cls.duration < 20 =>
        /\ cls.pc \in {"entry", "done"}
        /\ cls.os_score = 0 /\ cls.loop_score = 0
        /\ cls.evaluated = <<>>
        /\ cls.extractor_calls = 0
        /\ cls.pc = "done" =>
              cls.verdict = [set |-> TRUE, is_one_shot |-> TRUE, is_loop |-> FALSE,
                             confidence |-> [num |-> 1, den |-> 1, eps |-> FALSE]]

\* a 1.9 s input whose name has a loop keyword and whose predictions name a
\* percussion instrument, classified
C9Witness ==
    /\ cls.pc = "done"
    /\ cls.duration = 19
    /\ StrTruthy(cls.filename) /\ AnyIn(loop_keywords, ToLower(cls.filename.chars))
    /\ \E i \in 1..Len(cls.preds) : IsPercussionPrediction(cls.preds[i])

--------------------------------------------------------------------------
(* C10: every verdict has exactly one of is_one_shot and is_loop true, and  *)
(* a confidence that is defined (non-zero denominator) and within [0, 1].   *)
VerdictWellFormed ==
    (cls.pc = "done" => cls.verdict.set)
    /\ (cls.verdict.set =>
          /\ cls.verdict.is_one_shot # cls.verdict.is_loop
          /\ cls.verdict.confidence.den > 0 \/ cls.verdict.confidence.eps
          /\ cls.verdict.confidence.num >= 0
          /\ cls.verdict.confidence.num <= cls.verdict.confidence.den)

\* a run of at least 2.0 s that ended with both scores 0
C10Witness ==
    /\ cls.pc = "done"
    /\ cls.duration >= 20
    /\ cls.os_score = 0 /\ cls.loop_score = 0
    /\ Len(cls.evaluated) = 8

\* a run that ended with a loop verdict
C10WitnessLoop == cls.pc = "done" /\ cls.verdict.is_loop /\ cls.os_score > 0

--------------------------------------------------------------------------
(* C11: a run of at least 2.0 s to which the percussion override does not   *)
(* apply ends with a loop verdict exactly when loop_score >= 3.0 and        *)
(* loop_score > one_shot_score; in every other case (a tie, loop evidence   *)
(* below 3.0, no evidence) the verdict is one-shot.                         *)
NormalRuleDecides ==
    (cls.pc = "done" /\ cls.duration >= 20 /\ ~PercussionOverrideApplies(cls)) =>
        /\ cls.verdict.is_loop <=> (cls.loop_score >= 6 /\ cls.loop_score > cls.os_score)
        /\ cls.verdict.is_one_shot <=> ~(cls.loop_score >= 6 /\ cls.loop_score > cls.os_score)

\* a loop verdict at loop_score exactly 3.0, the override not applying
C11Witness ==
    /\ cls.pc = "done" /\ cls.duration >= 20
    /\ ~PercussionOverrideApplies(cls)
    /\ cls.loop_score = 6 /\ cls.os_score < 6
    /\ cls.verdict.is_loop

\* a tie above the threshold, decided one-shot
C11WitnessTie ==
    /\ cls.pc = "done" /\ cls.duration >= 20
    /\ ~PercussionOverrideApplies(cls)
    /\ cls.loop_score >= 6 /\ cls.loop_score = cls.os_score
    /\ cls.verdict.is_one_shot

--------------------------------------------------------------------------
(* C12: whenever percussion evidence fired (a percussion keyword in the     *)
(* file name, or an instrument prediction at confidence >= 0.60) and the    *)
(* file name shows no loop keyword and no <digits>bpm hint, an absent file  *)
(* name included, a loop verdict requires loop_score > 8.0.                 *)

\* percussion evidence, read from the inputs of the run
PercussionEvidence(c) ==
    \/ StrTruthy(c.filename) /\ AnyIn(perc_keywords, ToLower(c.filename.chars))
    \/ \E i \in 1..Len(c.preds) : IsPercussionPrediction(c.preds[i])

\* the file name, if there is one, hints at a loop
ShowsLoopHint(c) ==
    /\ StrTruthy(c.filename)
    /\ \/ AnyIn(loop_keywords, ToLower(c.filename.chars))
       \/ HasBpmHint(ToLower(c.filename.chars))

OverrideCoversEveryFilename ==
    (cls.pc = "done" /\ cls.duration >= 20) =>
        IF PercussionEvidence(cls) /\ ~ShowsLoopHint(cls)
        THEN cls.verdict.is_loop <=> (cls.loop_score > 16 /\ cls.loop_score > cls.os_score)
        ELSE cls.verdict.is_loop <=> (cls.loop_score >= 6 /\ cls.loop_score > cls.os_score)

--------------------------------------------------------------------------
(* C13: the classifier never raises: a failure of an extraction inside an   *)
(* evidence rule (RMS envelope, onset detection, start/end correlation,     *)
(* autocorrelation) is caught at that rule, the rule adds nothing to either *)
(* score, the remaining rules are evaluated and a verdict is returned.      *)
ClassifierNeverRaises ==
    /\ cls.pc # "raised"
    /\ cls.failed \cap cls.scored = {}
    /\ (cls.pc = "done" /\ cls.duration >= 20) => (Len(cls.evaluated) = 8 /\ cls.verdict.set)

--------------------------------------------------------------------------
(* C14: one_shot_score and loop_score are never negative while the rules    *)
(* are evaluated, and two runs (duration >= 2.0 s) that end with the same   *)
(* pair of scores return the same verdict and the same confidence.          *)

\* this run and the one before it ended with the same pair of scores
SamePair ==
    /\ cls.pc = "done" /\ cls.prev.set
    /\ cls.os_score = cls.prev.os_score /\ cls.loop_score = cls.prev.loop_score

ScoresNeverNegative == cls.pc # "idle" => (cls.os_score >= 0 /\ cls.loop_score >= 0)

\* the claim as it stands
ScoresAloneDecide ==
    /\ ScoresNeverNegative
    /\ SamePair => cls.verdict = cls.prev.verdict

\* the claim amended: the confidence follows from the pair, the verdict from
\* the pair and from whether the percussion override applies
ScoresAndOverrideDecide ==
    /\ ScoresNeverNegative
    /\ SamePair =>
          /\ cls.verdict.confidence = cls.prev.verdict.confidence
          /\ PercussionOverrideApplies(cls) = cls.prev.override => cls.verdict = cls.prev.verdict

\* two runs on different inputs that ended with the same pair, the override
\* applying to neither, both decided loop
C14Witness ==
    /\ SamePair
    /\ ~PercussionOverrideApplies(cls) /\ ~cls.prev.override
    /\ cls.verdict.is_loop /\ cls.prev.verdict.is_loop

\* the same pair with and without the override, decided differently
C14WitnessOverride ==
    /\ SamePair
    /\ PercussionOverrideApplies(cls) # cls.prev.override
    /\ cls.verdict.is_loop # cls.prev.verdict.is_loop

--------------------------------------------------------------------------
(* C15: within one request the stages are passed in the fixed order load,  *)
(* preprocess, core features, classification, optional advanced features,  *)
(* tag generation, complete: classification starts only after the spectral, *)
(* energy and instrument stages, tag generation only after every advanced   *)
(* sub-stage of an advanced request, no stage is repeated or passed         *)
(* backwards, and the advanced block is entered only at the advanced level. *)

StageIndex(stage) == CHOOSE i \in 1..Len(StageOrder) : StageOrder[i] = stage

Passed(r) == {r.trace[i] : i \in 1..Len(r.trace)}

AdvancedStages == {StageOrder[i] : i \in 13..23}

StagesInFixedOrder ==
    run.pc # "idle" =>
        /\ \A i \in 1..Len(run.trace) : \E k \in 1..Len(StageOrder) : run.trace[i] = StageOrder[k]
        /\ \A i, j \in 1..Len(run.trace) :
              i < j => StageIndex(run.trace[i]) < StageIndex(run.trace[j])
        /\ run.pc = "classify" => {"load", "preprocess", "spectral", "energy", "instruments"} \subseteq Passed(run)
        /\ (run.pc = "tags" /\ run.level = "advanced") => AdvancedStages \subseteq Passed(run)
        /\ Passed(run) \cap AdvancedStages # {} => run.level = "advanced"
        /\ run.result = "returned" =>
              {"load", "preprocess", "classify", "tags", "complete"} \subseteq Passed(run)

C15Witness ==
    /\ run.pc = "returned"
    /\ run.level = "advanced"
    /\ AdvancedStages \subseteq Passed(run)
    /\ Len(run.trace) = Len(StageOrder)

C15WitnessBasic ==
    /\ run.pc = "returned"
    /\ run.level = "basic"
    /\ Len(run.trace) = Len(StageOrder) - 11

--------------------------------------------------------------------------
(* C16: for every capability configuration, every level the worker accepts *)
(* and every pattern of sub-stage failures a returned FeatureRecord has    *)
(* the same key set: every advanced-tier field is present, and is null     *)
(* when its capability is disabled or its stage failed.                    *)

\* the fields of a sub-stage that every path of it writes
SubStageKeys(stage) ==
    IF stage = "ml_instrument" THEN {"instrument_classes"} ELSE StageKeys(stage)

AdvancedTierKeys == UNION {SubStageKeys(s) : s \in AdvancedStages \cup {"fingerprint"}}

EmbeddingKeys == {"yamnet_embeddings", "ml_embeddings"}

IsNull(r, keys) == \A k \in keys \cap DOMAIN r.features : r.features[k] = "null"

AdvancedKeysAlwaysPresent ==
    run.result = "returned" =>
        /\ AdvancedTierKeys \subseteq DOMAIN run.features
        /\ EmbeddingKeys \cap DOMAIN run.features # {}
        /\ config.DISABLE_ESSENTIA => IsNull(run, StageKeys("timbral"))
        /\ config.DISABLE_FINGERPRINT => IsNull(run, {"chromaprint_fingerprint"})

--------------------------------------------------------------------------
(* C17: in an advanced request the internal failure of one advanced        *)
(* sub-stage (timbral, stereo, harmonic/percussive separation, rhythm,     *)
(* envelope, ML instrument, genre/mood, loudness, events, fingerprint)     *)
(* stays within that stage's fields: a record is returned, the failed      *)
(* stage's fields are null, and every other sub-stage still runs and       *)
(* contributes its fields.                                                 *)

NamedSubStages ==
    {"timbral", "stereo", "hpss", "rhythm", "adsr", "ml_instrument", "genre", "loudness",
     "events", "fingerprint"}

\* the fields a failure of the sub-stage leaves null
FailedFields(stage) ==
    IF stage = "fingerprint" THEN {"chromaprint_fingerprint"}
    ELSE IF stage = "ml_instrument" THEN {"instrument_classes"} \cup EmbeddingKeys
    ELSE SubStageKeys(stage)

SingleFailureContained ==
    \A s \in NamedSubStages :
        (/\ run.pc \in {"returned", "raised"}
         /\ run.level = "advanced"
         /\ run.audio \in {"oneshot", "loop"}
         /\ run.faults = {s})
        => /\ run.result = "returned"
           /\ IsNull(run, FailedFields(s))
           /\ \A t \in (AdvancedStages \cup {"fingerprint"}) \ {s} :
                 SubStageKeys(t) \subseteq DOMAIN run.features

--------------------------------------------------------------------------
(* C18: two runs of the pipeline on the same file with the same            *)
(* configuration, level and filename hint return identical FeatureRecords, *)
(* every key and value equal.                                              *)

TwoRunsIdentical ==
    (run.pc = "returned" /\ run.prev.set) => run.features = run.prev.features

--------------------------------------------------------------------------
(* C19: within one request each expensive intermediate signal is computed  *)
(* at most once: the harmonic/percussive separation, the tempo estimate,   *)
(* the spectral and the energy scalars; no later stage computes one again. *)

ComputedAtMostOnce ==
    run.pc # "idle" =>
        /\ run.hpss_runs <= 1
        /\ run.tempo_runs <= 1
        /\ run.spectral_runs <= 1
        /\ run.energy_runs <= 1

--------------------------------------------------------------------------
(* C20: with safe mode on the three disable flags are all true, and during *)
(* a request no Essentia stage runs, no ML model is loaded or run, and no  *)
(* Chromaprint fingerprint is computed.                                    *)

SafeModeDisablesNative ==
    (config.SAFE_MODE /\ run.pc # "idle") =>
        /\ config.DISABLE_ESSENTIA
        /\ config.DISABLE_TENSORFLOW
        /\ config.DISABLE_FINGERPRINT
        /\ run.native = {}

--------------------------------------------------------------------------
(* C21: across the analyze requests of one process the model cache is      *)
(* written at most once per model: the heavyweight loader of each model is *)
(* invoked at most once, and a cached handle is never replaced or cleared. *)

\* the handle of the call's model in a cache
HandleIn(call, c) == IF call.loader = "yamnet" THEN c.yamnet_model ELSE c.panns_model

CallsOf(name) == {i \in 1..Len(loads) : loads[i].loader = name}

HandleKept ==
    \A i \in 1..Len(loads) :
        HandleIn(loads[i], loads[i].before) # "None" =>
            /\ loads[i].after = loads[i].before
            /\ ~loads[i].invoked

--------------------------------------------------------------------------
(* C30: after any sequence of successful and failed loads, whenever a      *)
(* loader hands out a model handle the label vocabulary handed out with it *)
(* is there and complete.                                                  *)

HandedModelHasCompleteLabels ==
    \A i \in 1..Len(loads) : loads[i].model # "None" => loads[i].labels = "complete"

--------------------------------------------------------------------------
(* C22: with backtracking off, the indices the peak picker returns are     *)
(* strictly increasing and any two of them differ by more than wait frames, *)
(* for every envelope and every setting of the parameters.                 *)

Spaced(s, gap) == \A i, j \in 1..Len(s) : i < j => s[j] - s[i] > gap

PeaksSpacedByWait ==
    (det.pc \in {"done", "compared"} /\ ~det.p.backtrack) =>
        /\ Spaced(det.frames, 0)
        /\ Spaced(det.frames, det.p.wait)
        /\ \A k \in 1..Len(det.frames) : det.frames[k] \in 0..(Len(det.env) - 1)

\* two indices returned under a wait of one frame
C22Witness ==
    /\ det.pc = "done"
    /\ ~det.p.backtrack
    /\ det.p.wait = 1
    /\ Len(det.frames) = 2

\* a frame that is a local maximum above the mean and was left out because
\* it follows the returned one within the wait
C22WitnessSuppressed ==
    /\ det.pc = "done"
    /\ ~det.p.backtrack
    /\ det.p.wait = 2
    /\ Len(det.frames) = 1
    /\ LET nm == Normalize(det.env)
           i  == det.frames[1] + 2
       IN /\ i < Len(det.env) - det.p.post_max
          /\ IsLocalMax(nm.num, det.p, i)
          /\ AboveMean(nm.num, nm.den, det.p, i)

--------------------------------------------------------------------------
(* C23: the onset detector never raises on degenerate input: an empty      *)
(* envelope, a one-element envelope and an envelope too short to hold a    *)
(* candidate outside the guard band each give an empty result.             *)

Degenerate(e, p) == Len(e) <= 1 \/ Len(e) - p.post_max <= p.pre_max

DegenerateGivesEmpty ==
    (det.pc \notin {"idle", "call"} /\ Degenerate(det.env, det.p)) =>
        /\ det.pc # "raised"
        /\ det.frames = <<>>

--------------------------------------------------------------------------
(* C24: for every envelope e and every constant c > 0 the detector returns *)
(* the same frames for c * e as for e, called with the same parameters.    *)

C24WitnessHalf ==
    /\ det.pc = "compared"
    /\ det.scaled.exact
    /\ det.scaled.c = "half"
    /\ det.frames # <<>>

--------------------------------------------------------------------------
(* C25: for every envelope whose values are all equal, of any length and   *)
(* with any parameters, the detector returns no frames.                    *)

IsFlat(e) == Len(e) > 0 /\ \A i, j \in 1..Len(e) : e[i] = e[j]

FlatGivesEmpty ==
    (det.pc # "idle" /\ det.pc # "call" /\ IsFlat(det.env)) =>
        /\ det.pc # "raised"
        /\ det.frames = <<>>

C25Witness ==
    /\ det.pc = "done"
    /\ IsFlat(det.env)
    /\ Len(det.env) = MaxEnvLen
    /\ det.env[1] = 1
    /\ det.p.pre_max = 0
    /\ det.p.delta.num = 0

--------------------------------------------------------------------------
(* C27: with backtracking on, the returned indices are still strictly      *)
(* increasing and any two of them are at least wait frames apart, for      *)
(* every envelope and energy curve.                                        *)

BacktrackedStillSpaced ==
    (det.pc \in {"done", "compared"} /\ det.p.backtrack) =>
        /\ Spaced(det.frames, 0)
        /\ \A i, j \in 1..Len(det.frames) :
              i < j => det.frames[j] - det.frames[i] >= det.p.wait

--------------------------------------------------------------------------
(* C28: whenever the caller asks for backtracking, with or without the     *)
(* signal, every accepted peak is replaced by the position of the minimum  *)
(* of the energy curve in the window of up to 2 * pre_max frames ending at *)
(* the peak: each returned index is <= its peak and >= peak - 2 * pre_max, *)
(* and the number of events is unchanged.                                  *)

BacktrackingIsPerformed ==
    (det.pc \in {"done", "compared"} /\ det.p.backtrack /\ Len(det.peaks) > 0) =>
        /\ det.walked
        /\ Len(det.frames) = Len(det.peaks)
        /\ \A k \in 1..Len(det.peaks) :
              /\ det.frames[k] <= det.peaks[k]
              /\ det.frames[k] >= det.peaks[k] - 2 * det.p.pre_max
              /\ \A j \in 0..(Len(det.energy) - 1) :
                    (det.peaks[k] - 2 * det.p.pre_max <= j /\ j <= det.peaks[k])
                    => det.energy[det.frames[k] + 1] <= det.energy[j + 1]

--------------------------------------------------------------------------
(* C26: the tag list holds no duplicates and keeps every tag at the place  *)
(* of its first occurrence, heuristic instrument predictions first and ML  *)
(* instrument classes after them, and generating the tags leaves the       *)
(* record it reads as it was.                                              *)

\* the tags as appended, before duplicates are dropped
Appended(f) ==
    CollectTags(f.instrument_predictions,
                IF f.instrument_classes.some THEN f.instrument_classes.items ELSE <<>>, 1)

FirstAt(s, x) == Min({i \in 1..Len(s) : s[i] = x})

TagsUniqueInFirstOrder ==
    tagging.pc = "done" =>
        LET all == Appended(tagging.given)
            tags == tagging.tags
        IN /\ \A i, j \in 1..Len(tags) : i # j => tags[i] # tags[j]
           /\ {tags[i] : i \in 1..Len(tags)} = {all[i] : i \in 1..Len(all)}
           /\ \A i, j \in 1..Len(tags) : i < j => FirstAt(all, tags[i]) < FirstAt(all, tags[j])
           /\ tagging.features = tagging.given

C26Witness ==
    /\ tagging.pc = "done"
    /\ Len(Appended(tagging.given)) = 4
    /\ Len(tagging.tags) = 2
    /\ tagging.given.instrument_predictions[1].name = "kick"
    /\ tagging.given.instrument_classes.items[1].class = "Kick drum"
    /\ tagging.given.instrument_classes.items[2].class = "Musical instrument, kick"

--------------------------------------------------------------------------
(* C29: whenever the percussion override applies the verdict is one-shot,   *)
(* whatever the evidence rules found: with no loop keyword in the file name *)
(* the loop rules add at most 1.0 + 1.0 + 1.5 + 0.5 + 0.5 = 4.5 to         *)
(* loop_score, so the branch loop_score > 8.0 is never taken.               *)
OverrideAlwaysOneShot ==
    (cls.pc = "done" /\ PercussionOverrideApplies(cls)) =>
        /\ cls.loop_score <= 9
        /\ cls.verdict.is_one_shot
        /\ ~cls.verdict.is_loop

\* every loop rule fired under the override and the loop evidence outweighs
\* the one-shot evidence
C29Witness ==
    /\ cls.pc = "done" /\ cls.duration >= 20
    /\ PercussionOverrideApplies(cls)
    /\ cls.loop_score = 9 /\ cls.loop_score > cls.os_score
    /\ cls.verdict.is_one_shot

====
